---- MODULE Spec2Model ----
(***************************************************************************)
(* State-machine model of the compliance-check task pipeline of            *)
(* pealnik/doc-matcher:                                                    *)
(*   backend/routers/tasks.py   start_match, stream_task_status,           *)
(*                              cancel_task (the HTTP handlers)            *)
(*   backend/services.py        update_task, process_compliance_check      *)
(*   backend/hybrid_fixed_checklist_checker.py                             *)
(*                              process_document, _build_report_vectorstore*)
(*   backend/database.py        the in-memory registries                   *)
(*                                                                         *)
(* Scheduling.  All coroutines run on one asyncio event loop: a coroutine  *)
(* keeps the loop until it reaches an await that really suspends.  An      *)
(* `await queue.put(x)` on the unbounded asyncio.Queue never suspends; the *)
(* suspension points of process_compliance_check are exactly its           *)
(* asyncio.to_thread calls.  `loop` names the orchestrator routine that is *)
(* in the middle of a turn ("idle" when none is); handlers and subscriber  *)
(* steps are single turns and need loop = "idle".  The thread started by   *)
(* asyncio.to_thread(_build_report_vectorstore) runs beside the loop and   *)
(* is not stopped when the awaiting routine is cancelled.                  *)
(***************************************************************************)
EXTENDS Integers, Sequences, FiniteSets, TLC

VARIABLES
    guidelines_db,        \* database.guidelines_db: checklist id -> requirement ids
    reports_db,           \* database.reports_db: the uploaded report ids
    tasks_db,             \* database.tasks_db: task id -> snapshot
    task_queues,          \* database.task_queues: the task ids with a registered queue
    running_async_tasks,  \* database.running_async_tasks: the task ids with a handle
    produced,             \* per task: every item ever put on its asyncio.Queue, in order
    taken,                \* per task: how many items queue.get() has removed
    orch,                 \* per task: the locals and position of process_compliance_check
    worker,               \* per task: the thread running _build_report_vectorstore
    sub,                  \* per subscription: the event_generator of stream_task_status
    loop,                 \* the routine holding the event loop, or "idle"
    response,             \* the answer of the HTTP handler that holds the loop
    scratch,              \* task ids whose <task_id>_requirements.json exists
    results_files         \* task id -> content of <task_id>.json

vars == <<guidelines_db, reports_db, tasks_db, task_queues, running_async_tasks,
          produced, taken, orch, worker, sub, loop, response, scratch, results_files>>

-----------------------------------------------------------------------------
(* Bounds and the identifiers requests draw from. *)

MaxSel == 2
MaxReqs == 2
MaxPages == 1

TaskIds == {"t1"}
AllTaskIds == {"t1", "t2"}
SubIds == {"s1"}
AllSubIds == {"s1", "s2"}
ReportIds == {"r1"}
GuidelineIds == {"g1", "g2"}
UnknownGuideline == "gx"
NoReport == "null"

RECURSIVE SeqsUpTo(_, _)
SeqsUpTo(S, n) ==
    IF n = 0 THEN {<<>>}
    ELSE LET shorter == SeqsUpTo(S, n - 1)
         IN  shorter \cup {Append(q, x) : q \in {p \in shorter : Len(p) = n - 1}, x \in S}

-----------------------------------------------------------------------------
(* Data *)

None == [sentinel |-> TRUE]

Msg(text, i, total) == [text |-> text, i |-> i, total |-> total]

CancelledMessage == Msg("Task cancelled by user.", 0, 0)

EmptySummary == <<>>

Terminal == {"completed", "failed"}

(* services.update_task: dict.update of the snapshot with the given keys, *)
(* a no-op when the task id is unknown.  (The updated_at timestamp is not  *)
(* part of the model.)                                                     *)
(* The snapshot replaced by the given keys instead of updated with them. *)
MergeReplacing(snapshot, updates) == updates

(* The update that also resets progress when the caller names none. *)
MergeResettingProgress(snapshot, updates) ==
    [k \in DOMAIN snapshot \cup DOMAIN updates |->
        IF k \in DOMAIN updates THEN updates[k]
        ELSE IF k = "progress" THEN 0 ELSE snapshot[k]]

Merge(snapshot, updates) ==
    [k \in DOMAIN snapshot \cup DOMAIN updates |->
        IF k \in DOMAIN updates THEN updates[k] ELSE snapshot[k]]

(* dict.update applied to every snapshot of the registry. *)
update_every_task(db, task_id, updates) ==
    [t \in DOMAIN db |-> Merge(db[t], updates)]

update_task(db, task_id, updates) ==
    IF task_id \in DOMAIN db
    THEN [db EXCEPT ![task_id] = Merge(@, updates)]
    ELSE db

(* The dict comprehension of event_generator that drops the task_id key. *)
update_copy(update) == [k \in DOMAIN update \ {"task_id"} |-> update[k]]

(* A queue of bounded size that drops what does not fit. *)
PutDropping(q, task_id, item) ==
    IF Len(q[task_id]) - taken[task_id] >= 2 THEN q
    ELSE [q EXCEPT ![task_id] = Append(@, item)]

(* queue.put / queue.put_nowait on the unbounded asyncio.Queue of a task. *)
Put(q, task_id, item) == [q EXCEPT ![task_id] = Append(@, item)]

Queue(task_id) ==
    SubSeq(produced[task_id], taken[task_id] + 1, Len(produced[task_id]))

ProgressEvent(task_id, progress, message) ==
    [task_id |-> task_id, status |-> "processing", progress |-> progress,
     message |-> message]

RowEvent(task_id, progress, message, row, summary) ==
    [task_id |-> task_id, status |-> "processing", progress |-> progress,
     message |-> message, result |-> [latest_row |-> row, summary |-> summary]]

(* The completed event carrying only the rows after the first. *)
CompletedEventTail(task_id, rows, summary) ==
    [task_id |-> task_id, status |-> "completed", progress |-> 100,
     message |-> Msg("Compliance check complete.", 0, 0),
     result |-> [rows |-> IF rows = <<>> THEN rows ELSE Tail(rows), summary |-> summary]]

CompletedEvent(task_id, rows, summary) ==
    [task_id |-> task_id, status |-> "completed", progress |-> 100,
     message |-> Msg("Compliance check complete.", 0, 0),
     result |-> [rows |-> rows, summary |-> summary]]

FailedEventGeneric(task_id, message) ==
    [task_id |-> task_id, status |-> "failed", message |-> Msg("Task failed.", 0, 0)]

FailedEvent(task_id, message) ==
    [task_id |-> task_id, status |-> "failed", message |-> message]

(* Result rows: the requirement's identity echoed, and the verdict. *)
NotCheckedRow(requirement) ==
    [requirement_id |-> requirement, status |-> "Not Checked"]

CheckedRow(requirement, status) ==
    [requirement_id |-> requirement, status |-> status]

ErrorRow(requirement) ==
    [requirement_id |-> requirement, status |-> "Error"]

CountStatus(results, status) ==
    Cardinality({k \in 1..Len(results) : results[k].status = status})

(* compliance_rate is compliant / total * 100, kept as the exact fraction. *)
Rate(compliant, total) ==
    IF total > 0 THEN [num |-> compliant * 100, den |-> total]
    ELSE [num |-> 0, den |-> 1]

(* The summary without the branch for the status Error. *)
_calculate_summary_without_error(results) ==
    [total |-> Len(results),
     compliant |-> CountStatus(results, "Compliant"),
     non_compliant |-> CountStatus(results, "Non-Compliant"),
     partially_compliant |-> CountStatus(results, "Partially Compliant"),
     error |-> 0,
     compliance_rate |-> Rate(CountStatus(results, "Compliant"), Len(results))]

_calculate_summary(results) ==
    [total |-> Len(results),
     compliant |-> CountStatus(results, "Compliant"),
     non_compliant |-> CountStatus(results, "Non-Compliant"),
     partially_compliant |-> CountStatus(results, "Partially Compliant"),
     error |-> CountStatus(results, "Error"),
     compliance_rate |-> Rate(CountStatus(results, "Compliant"), Len(results))]

GuidelineOnlySummary(results) ==
    [total |-> Len(results), compliant |-> 0, non_compliant |-> 0,
     partially_compliant |-> 0, error |-> 0, compliance_rate |-> Rate(0, 0)]

(* The progress formulas.  The code computes int((i / total) * span) on IEEE *)
(* doubles: the quotient is rounded, the product is rounded, and int() then *)
(* truncates.  For total up to 20 and the spans 10, 75 and 90 the result is  *)
(* floor(i * span / total) except for the triples of RoundedBelow, where the *)
(* rounded product lies just under the exact integer and truncation loses 1. *)
RoundedBelow == {<<11, 15, 75>>, <<7, 10, 90>>, <<14, 20, 90>>}

ScaledInt(i, total, span) ==
    ((i * span) \div total) - (IF <<i, total, span>> \in RoundedBelow THEN 1 ELSE 0)

(* The list progress computed in exact integer arithmetic. *)
ListProgressExact(i, total) == IF total > 0 THEN 5 + ((i * 90) \div total) ELSE 100

ListProgress(i, total) == IF total > 0 THEN 5 + ScaledInt(i, total, 90) ELSE 100

CheckProgress(i, total) == 20 + ScaledInt(i, total, 75)

(* The page fraction as a percentage of the whole run, not of its 5-15 band. *)
PageProgressUnscaled(current, total) == (current * 100) \div total

PageProgress(current, total) == 5 + ScaledInt(current, total, 10)

(* The consolidation that keeps only the first occurrence of a requirement. *)
RECURSIVE ConsolidateDistinct(_, _)
ConsolidateDistinct(db, guideline_ids) ==
    IF guideline_ids = <<>> THEN <<>>
    ELSE LET n == Len(guideline_ids)
             before == ConsolidateDistinct(db, SubSeq(guideline_ids, 1, n - 1))
             last == IF guideline_ids[n] \in DOMAIN db THEN db[guideline_ids[n]] ELSE <<>>
         IN  before \o SelectSeq(last, LAMBDA x : \A k \in 1..Len(before) : before[k] # x)

(* all_requirements: the selected checklists' requirement lists, concatenated. *)
RECURSIVE Consolidate(_, _)
Consolidate(db, guideline_ids) ==
    IF guideline_ids = <<>> THEN <<>>
    ELSE (IF Head(guideline_ids) \in DOMAIN db THEN db[Head(guideline_ids)] ELSE <<>>)
         \o Consolidate(db, Tail(guideline_ids))

valid_statuses == {"Compliant", "Non-Compliant", "Partially Compliant", "Error"}

-----------------------------------------------------------------------------
(* Per-task bookkeeping before start_match has created the task. *)

(* `outcome` records the exit path of the routine and `raised` the requirements *)
(* whose retrieval or evaluation raised; the code reads neither.                *)
NoOrch ==
    [pc |-> "absent", report_path |-> NoReport, guideline_ids |-> <<>>,
     all_requirements |-> <<>>, i |-> 0, results |-> <<>>,
     progress_bound |-> FALSE, progress |-> 0, summary |-> EmptySummary,
     must_cancel |-> FALSE, exc |-> Msg("", 0, 0), outcome |-> "none",
     raised |-> {}]

NoWorker == [pc |-> "absent", current |-> 0, total |-> 0]

(* `yielded` records the events the generator has yielded and `exit` how it *)
(* ended; the code reads neither.                                            *)
NoSub == [pc |-> "absent", task |-> "", gone |-> FALSE, yielded |-> <<>>, exit |-> ""]

(* No handler holds the loop. *)
NoResponse == [op |-> "none"]

Checklists == [g \in GuidelineIds |-> IF g = "g1" THEN <<"R1">> ELSE <<"R2", "R1">>]

Init ==
    /\ guidelines_db = Checklists
    /\ reports_db = {}
    /\ tasks_db = <<>>
    /\ task_queues = {}
    /\ running_async_tasks = {}
    /\ produced = [t \in AllTaskIds |-> <<>>]
    /\ taken = [t \in AllTaskIds |-> 0]
    /\ orch = [t \in AllTaskIds |-> NoOrch]
    /\ worker = [t \in AllTaskIds |-> NoWorker]
    /\ sub = [s \in AllSubIds |-> NoSub]
    /\ loop = "idle"
    /\ response = NoResponse
    /\ scratch = {}
    /\ results_files = <<>>

-----------------------------------------------------------------------------
(* HTTP handlers (routers/tasks.py).  Each is one turn of the event loop. *)

(* A request being answered: the handler, what it was called with, its *)
(* status code and, on success, the body.                              *)
Respond(op, request, code, body) ==
    [op |-> op, request |-> request, code |-> code, body |-> body]

NoBody == <<>>

(* The handler's turn ends with its answer; the loop is free again when the *)
(* answer has been handed over.                                             *)
Answer(op, request, code, body) ==
    /\ loop' = "http"
    /\ response' = Respond(op, request, code, body)

Return ==
    /\ loop = "http"
    /\ loop' = "idle"
    /\ response' = NoResponse
    /\ UNCHANGED <<guidelines_db, reports_db, tasks_db, task_queues, running_async_tasks,
                   produced, taken, orch, worker, sub, scratch, results_files>>

(* The file of an upload: a PDF that is saved, a PDF whose save raises, or a *)
(* file that is no PDF.                                                     *)
UploadKinds == {"pdf", "unsaved", "other"}

UploadReportCode(file) ==
    IF file = "other" THEN 400 ELSE IF file = "unsaved" THEN 500 ELSE 200

(* POST /reports/upload. *)
upload_report(file, report_id) ==
    /\ loop = "idle"
    /\ file \in UploadKinds
    /\ report_id \in ReportIds \ reports_db
    /\ reports_db' = IF file = "pdf" THEN reports_db \cup {report_id} ELSE reports_db
    /\ Answer("upload_report", file, UploadReportCode(file),
              IF file = "pdf" THEN report_id ELSE NoBody)
    /\ UNCHANGED <<guidelines_db, tasks_db, task_queues, running_async_tasks,
                   produced, taken, orch, worker, sub, scratch, results_files>>

(* A snapshot created as already processing. *)
NewSnapshotProcessing(task_id, report_filename, guideline_ids) ==
    [task_id |-> task_id, status |-> "processing", progress |-> 0,
     message |-> Msg("Task created, starting processing...", 0, 0),
     result |-> [rows |-> <<>>, summary |-> EmptySummary],
     report_filename |-> report_filename, guideline_ids |-> guideline_ids]

(* start_match, steps 3-5: the snapshot, the queue, the scheduled routine. *)
NewSnapshot(task_id, report_filename, guideline_ids) ==
    [task_id |-> task_id, status |-> "pending", progress |-> 0,
     message |-> Msg("Task created, starting processing...", 0, 0),
     result |-> [rows |-> <<>>, summary |-> EmptySummary],
     report_filename |-> report_filename, guideline_ids |-> guideline_ids]

(* The creation that registers the queue and the handle but no snapshot. *)
CreateTaskUnrecorded(task_id, report_path, guideline_ids) ==
    /\ tasks_db' = tasks_db
    /\ task_queues' = task_queues \cup {task_id}
    /\ produced' = [produced EXCEPT ![task_id] = <<>>]
    /\ taken' = [taken EXCEPT ![task_id] = 0]
    /\ orch' = [orch EXCEPT ![task_id] =
                  [NoOrch EXCEPT !.pc = "scheduled", !.report_path = report_path,
                                 !.guideline_ids = guideline_ids]]
    /\ running_async_tasks' = running_async_tasks \cup {task_id}

CreateTask(task_id, report_path, guideline_ids) ==
    /\ tasks_db' = [t \in DOMAIN tasks_db \cup {task_id} |->
                      IF t = task_id
                      THEN NewSnapshot(task_id, report_path, guideline_ids)
                      ELSE tasks_db[t]]
    /\ task_queues' = task_queues \cup {task_id}
    /\ produced' = [produced EXCEPT ![task_id] = <<>>]
    /\ taken' = [taken EXCEPT ![task_id] = 0]
    /\ orch' = [orch EXCEPT ![task_id] =
                  [NoOrch EXCEPT !.pc = "scheduled", !.report_path = report_path,
                                 !.guideline_ids = guideline_ids]]
    /\ running_async_tasks' = running_async_tasks \cup {task_id}

(* A request to start_match: a multipart form with a file (UploadKinds) and a *)
(* guideline_ids field, or a JSON body ("none") naming an uploaded report, or  *)
(* none (null).  body_ok: the form field is present and parses as a JSON       *)
(* array, or the JSON body fits ComplianceMatchRequest.                        *)
Requests ==
    [upload : UploadKinds \cup {"none"}, body_ok : BOOLEAN,
     report_id : ReportIds \cup {NoReport},
     guideline_ids : SeqsUpTo(GuidelineIds \cup {UnknownGuideline}, MaxSel)]

(* start_match without the lookup of lines 109-111. *)
StartMatchErrorNoLookup(req) ==
    IF req.upload \in {"other", "unsaved"} THEN 400
    ELSE IF ~req.body_ok THEN 400
    ELSE IF req.upload = "none" /\ req.report_id \notin reports_db THEN 404
    ELSE 0

(* What start_match answers before it creates anything (lines 63-111): 0 when *)
(* the request passes every check.                                           *)
StartMatchError(req) ==
    IF req.upload \in {"other", "unsaved"} THEN 400
    ELSE IF ~req.body_ok THEN 400
    ELSE IF req.upload = "none" /\ req.report_id \notin reports_db THEN 404
    ELSE IF \E k \in 1..Len(req.guideline_ids) :
               req.guideline_ids[k] \notin DOMAIN guidelines_db THEN 404
    ELSE 0

start_match(req, fresh_report, task_id) ==
    /\ loop = "idle"
    /\ req \in Requests
    /\ req.upload = "pdf" => fresh_report \in ReportIds \ reports_db
    /\ req.upload # "pdf" => fresh_report = NoReport
    /\ reports_db' = IF req.upload = "pdf" THEN reports_db \cup {fresh_report}
                     ELSE reports_db
    /\ IF StartMatchError(req) # 0
       THEN /\ Answer("start_match", req, StartMatchError(req), NoBody)
            /\ UNCHANGED <<tasks_db, task_queues, running_async_tasks, produced, taken, orch>>
       ELSE /\ task_id \in AllTaskIds \ DOMAIN tasks_db
            /\ Len(Consolidate(guidelines_db, req.guideline_ids)) <= MaxReqs
            /\ CreateTask(task_id,
                          IF req.upload = "pdf" THEN fresh_report ELSE req.report_id,
                          req.guideline_ids)
            /\ Answer("start_match", req, 200,
                      NewSnapshot(task_id,
                                  IF req.upload = "pdf" THEN fresh_report ELSE req.report_id,
                                  req.guideline_ids))
    /\ UNCHANGED <<guidelines_db, worker, sub, scratch, results_files>>

(* GET /tasks: the snapshots of every task. *)
list_tasks ==
    /\ loop = "idle"
    /\ Answer("list_tasks", "", 200, {tasks_db[t] : t \in DOMAIN tasks_db})
    /\ UNCHANGED <<guidelines_db, reports_db, tasks_db, task_queues, running_async_tasks,
                   produced, taken, orch, worker, sub, scratch, results_files>>

(* GET /tasks/{task_id}. *)
get_task_status(task_id) ==
    /\ loop = "idle"
    /\ task_id \in AllTaskIds
    /\ IF task_id \notin DOMAIN tasks_db
       THEN Answer("get_task_status", task_id, 404, NoBody)
       ELSE Answer("get_task_status", task_id, 200, tasks_db[task_id])
    /\ UNCHANGED <<guidelines_db, reports_db, tasks_db, task_queues, running_async_tasks,
                   produced, taken, orch, worker, sub, scratch, results_files>>

(* background_task.done(): the routine has returned or was cancelled unstarted. *)
Done(task_id) == orch[task_id].pc = "done"

(* background_task.cancel(): the next await of the routine raises CancelledError. *)
Cancel(o, task_id) == [o EXCEPT ![task_id].must_cancel = TRUE]

(* The status cancel_task answers with (lines 210-230). *)
CancelTaskCode(task_id) ==
    IF task_id \notin DOMAIN tasks_db THEN 404
    ELSE IF tasks_db[task_id].status \notin {"pending", "processing"} THEN 400
    ELSE IF task_id \in running_async_tasks
         THEN IF ~Done(task_id) THEN 200 ELSE 400
    ELSE 404

cancel_task(task_id) ==
    /\ loop = "idle"
    /\ task_id \in AllTaskIds
    /\ orch' = IF CancelTaskCode(task_id) = 200 THEN Cancel(orch, task_id) ELSE orch
    /\ running_async_tasks' =
          IF /\ CancelTaskCode(task_id) = 400
             /\ tasks_db[task_id].status \in {"pending", "processing"}
          THEN running_async_tasks \ {task_id}
          ELSE running_async_tasks
    /\ Answer("cancel_task", task_id, CancelTaskCode(task_id), NoBody)
    /\ UNCHANGED <<guidelines_db, reports_db, tasks_db, task_queues, produced, taken,
                   worker, sub, scratch, results_files>>

(* GET /tasks/{task_id}/stream (lines 152-156, 205): 404 without a registered   *)
(* queue; otherwise the response wraps a new event_generator, which starts on a *)
(* later turn.                                                                  *)
StreamTaskStatusCode(task_id) == IF task_id \notin task_queues THEN 404 ELSE 200

stream_task_status(s, task_id) ==
    /\ loop = "idle"
    /\ sub[s].pc = "absent"
    /\ task_id \in AllTaskIds
    /\ sub' = IF StreamTaskStatusCode(task_id) = 200
              THEN [sub EXCEPT ![s] = [NoSub EXCEPT !.pc = "accepted", !.task = task_id]]
              ELSE sub
    /\ Answer("stream_task_status", task_id, StreamTaskStatusCode(task_id), NoBody)
    /\ UNCHANGED <<guidelines_db, reports_db, tasks_db, task_queues, running_async_tasks,
                   produced, taken, orch, worker, scratch, results_files>>

(* GET /tasks/{task_id}/download (lines 235-268).  Whatever is raised inside *)
(* the try block, the HTTPException of line 244 included, is caught at line  *)
(* 266 and answered with 500; so is a failure of the PDF generator.          *)
DownloadCodes(task_id) ==
    IF task_id \notin DOMAIN results_files THEN {404}
    ELSE IF results_files[task_id].status # "completed" THEN {500}
    ELSE {200, 500}

download_compliance_report(task_id) ==
    /\ loop = "idle"
    /\ task_id \in AllTaskIds
    /\ \E code \in DownloadCodes(task_id) :
          Answer("download_compliance_report", task_id, code,
                 IF code = 200 THEN [rows |-> results_files[task_id].results,
                                     summary |-> results_files[task_id].summary]
                 ELSE NoBody)
    /\ UNCHANGED <<guidelines_db, reports_db, tasks_db, task_queues, running_async_tasks,
                   produced, taken, orch, worker, sub, scratch, results_files>>

-----------------------------------------------------------------------------
(* stream_task_status.event_generator (routers/tasks.py lines 158-202). *)

(* The finally block: drop the queue registration, and the handle if done. *)
SubFinally(task_id, running) ==
    /\ task_queues' = task_queues \ {task_id}
    /\ running_async_tasks' =
          IF task_id \in running /\ Done(task_id) THEN running \ {task_id} ELSE running

(* Lines 159-162: look the queue up; return (outside the try) when it is gone. *)
SubStart(s) ==
    /\ loop = "idle"
    /\ sub[s].pc = "accepted"
    /\ sub' = IF sub[s].task \in task_queues
              THEN [sub EXCEPT ![s].pc = "check"]
              ELSE [sub EXCEPT ![s].pc = "closed", ![s].exit = "no_queue"]
    /\ UNCHANGED <<guidelines_db, response, reports_db, tasks_db, task_queues, running_async_tasks,
                   produced, taken, orch, worker, loop, scratch, results_files>>

(* The client goes away (the environment). *)
ClientDisconnect(s) ==
    /\ sub[s].pc \in {"accepted", "check", "get", "yielded"}
    /\ ~sub[s].gone
    /\ sub' = [sub EXCEPT ![s].gone = TRUE]
    /\ UNCHANGED <<guidelines_db, response, reports_db, tasks_db, task_queues, running_async_tasks,
                   produced, taken, orch, worker, loop, scratch, results_files>>

(* Lines 167-180: request.is_disconnected(); on a disconnect cancel the routine, *)
(* drop its handle and leave the loop through the finally block.                 *)
SubCheck(s) ==
    LET t == sub[s].task IN
    /\ loop = "idle"
    /\ sub[s].pc = "check"
    /\ IF sub[s].gone
       THEN /\ orch' = IF t \in running_async_tasks /\ ~Done(t)
                       THEN Cancel(orch, t) ELSE orch
            /\ SubFinally(t, running_async_tasks \ {t})
            /\ sub' = [sub EXCEPT ![s].pc = "closed", ![s].exit = "disconnect"]
       ELSE /\ sub' = [sub EXCEPT ![s].pc = "get"]
            /\ UNCHANGED <<orch, task_queues, running_async_tasks>>
    /\ UNCHANGED <<guidelines_db, response, reports_db, tasks_db, produced, taken, worker, loop,
                   scratch, results_files>>

(* Lines 182-189: take the next item; the sentinel ends the stream, any other *)
(* item is written into the snapshot by update_task and then yielded.          *)
SubGet(s) ==
    LET t == sub[s].task
        update == Head(Queue(t))
    IN
    /\ loop = "idle"
    /\ sub[s].pc = "get"
    /\ Queue(t) # <<>>
    /\ taken' = [taken EXCEPT ![t] = @ + 1]
    /\ IF update = None
       THEN /\ SubFinally(t, running_async_tasks)
            /\ sub' = [sub EXCEPT ![s].pc = "closed", ![s].exit = "sentinel"]
            /\ UNCHANGED tasks_db
       ELSE /\ tasks_db' = update_task(tasks_db, t, update_copy(update))
            /\ sub' = [sub EXCEPT ![s].pc = "yielded",
                                  ![s].yielded = Append(@, update)]
            /\ UNCHANGED <<task_queues, running_async_tasks>>
    /\ UNCHANGED <<guidelines_db, response, reports_db, produced, orch, worker, loop, scratch,
                   results_files>>

(* The response has sent the yielded event and asks the generator for the next. *)
SubNext(s) ==
    /\ loop = "idle"
    /\ sub[s].pc = "yielded"
    /\ sub' = [sub EXCEPT ![s].pc = "check"]
    /\ UNCHANGED <<guidelines_db, response, reports_db, tasks_db, task_queues, running_async_tasks,
                   produced, taken, orch, worker, loop, scratch, results_files>>

(* Lines 190-202: the response of a disconnected client cancels the generator at *)
(* the point where it is suspended; only the finally block runs.                 *)
SubCancelled(s) ==
    /\ loop = "idle"
    /\ sub[s].pc \in {"check", "get", "yielded"}
    /\ sub[s].gone
    /\ SubFinally(sub[s].task, running_async_tasks)
    /\ sub' = [sub EXCEPT ![s].pc = "closed", ![s].exit = "cancelled"]
    /\ UNCHANGED <<guidelines_db, response, reports_db, tasks_db, produced, taken, orch, worker,
                   loop, scratch, results_files>>

-----------------------------------------------------------------------------
(* services.process_compliance_check, one action per stretch of code.  An     *)
(* action with loop = task_id continues the routine's current turn; an action *)
(* with loop = "idle" starts a turn (the first step, or the resumption of an  *)
(* await asyncio.to_thread).                                                   *)

OrchVars(task_id, o) == orch' = [orch EXCEPT ![task_id] = o]

N(task_id) == Len(orch[task_id].all_requirements)

(* A task cancelled before its first step: CancelledError is thrown into the *)
(* coroutine before any line of its body runs, so the body never executes.   *)
OrchNeverStarted(t) ==
    /\ loop = "idle"
    /\ orch[t].pc = "scheduled"
    /\ orch[t].must_cancel
    /\ OrchVars(t, [orch[t] EXCEPT !.pc = "done", !.must_cancel = FALSE,
                                  !.outcome = "never_started"])
    /\ UNCHANGED <<guidelines_db, response, reports_db, tasks_db, task_queues, running_async_tasks,
                   produced, taken, worker, sub, loop, scratch, results_files>>

(* Lines 83-92: the queue lookup and the first event. *)
OrchStart(t) ==
    /\ loop = "idle"
    /\ orch[t].pc = "scheduled"
    /\ ~orch[t].must_cancel
    /\ IF t \notin task_queues
       THEN /\ OrchVars(t, [orch[t] EXCEPT !.pc = "done", !.outcome = "no_queue"])
            /\ UNCHANGED <<produced, loop>>
       ELSE /\ produced' = Put(produced, t,
                   ProgressEvent(t, 2, Msg("File received. Initializing processing...", 0, 0)))
            /\ OrchVars(t, [orch[t] EXCEPT !.pc = "consolidate"])
            /\ loop' = t
    /\ UNCHANGED <<guidelines_db, response, reports_db, tasks_db, task_queues, running_async_tasks,
                   taken, worker, sub, scratch, results_files>>

(* How writing a file ends: open raises and nothing is created, or json.dump *)
(* raises and leaves a truncated file, or the file is written.               *)
WriteOutcomes == {"open_failed", "dump_failed", "written"}

(* Lines 94-119: consolidate the requirements and write the scratch file; a  *)
(* missing checklist or a failed write raises.  Without a report the routine *)
(* announces the guideline-only run.                                         *)
OrchConsolidate(t) ==
    LET gids == orch[t].guideline_ids
        missing == \E k \in 1..Len(gids) : gids[k] \notin DOMAIN guidelines_db
    IN
    /\ loop = t
    /\ orch[t].pc = "consolidate"
    /\ \E write \in WriteOutcomes :
         IF missing \/ write # "written"
         THEN /\ OrchVars(t, [orch[t] EXCEPT !.pc = "on_error",
                     !.exc = IF missing THEN Msg("Guideline not found or has no requirements.", 0, 0)
                             ELSE Msg("OSError: temp_guidelines file", 0, 0)])
              /\ scratch' = IF ~missing /\ write = "dump_failed"
                            THEN scratch \cup {t} ELSE scratch
              /\ UNCHANGED produced
         ELSE /\ scratch' = scratch \cup {t}
              /\ IF orch[t].report_path = NoReport
                 THEN /\ produced' = Put(produced, t, ProgressEvent(t, 5,
                             Msg("Processing selected checklist(s) (no report supplied)...", 0, 0)))
                      /\ OrchVars(t, [orch[t] EXCEPT !.pc = "list",
                             !.all_requirements = Consolidate(guidelines_db, gids)])
                 ELSE /\ OrchVars(t, [orch[t] EXCEPT !.pc = "checker_init",
                             !.all_requirements = Consolidate(guidelines_db, gids)])
                      /\ UNCHANGED produced
    /\ UNCHANGED <<guidelines_db, response, reports_db, tasks_db, task_queues, running_async_tasks,
                   taken, worker, sub, loop, results_files>>

(* Lines 120-152: one "Not Checked" row and one event per requirement, then the *)
(* guideline-only summary.                                                      *)
OrchListRequirement(t) ==
    LET i == orch[t].i + 1
        row == NotCheckedRow(orch[t].all_requirements[i])
    IN
    /\ loop = t
    /\ orch[t].pc = "list"
    /\ IF orch[t].i < N(t)
       THEN /\ produced' = Put(produced, t,
                   RowEvent(t, ListProgress(i, N(t)), Msg("Listed requirement", i, N(t)),
                            row, EmptySummary))
            /\ OrchVars(t, [orch[t] EXCEPT !.i = i, !.results = Append(@, row)])
       ELSE /\ OrchVars(t, [orch[t] EXCEPT !.pc = "persist",
                   !.summary = GuidelineOnlySummary(orch[t].results)])
            /\ UNCHANGED produced
    /\ UNCHANGED <<guidelines_db, response, reports_db, tasks_db, task_queues, running_async_tasks,
                   taken, worker, sub, loop, scratch, results_files>>

(* Lines 157-167 and process_document lines 113-117: build the checker (which *)
(* may raise), announce indexing, start the indexing thread and suspend.      *)
OrchCheckerInit(t) ==
    /\ loop = t
    /\ orch[t].pc = "checker_init"
    /\ \E ok \in BOOLEAN :
         IF ok
         THEN /\ produced' = Put(produced, t,
                     ProgressEvent(t, 5, Msg("Indexing report...", 0, 0)))
              /\ worker' = [worker EXCEPT ![t] = [NoWorker EXCEPT !.pc = "extract"]]
              /\ OrchVars(t, [orch[t] EXCEPT !.pc = "await_index"])
              /\ loop' = "idle"
         ELSE /\ OrchVars(t, [orch[t] EXCEPT !.pc = "on_error",
                     !.exc = Msg("checker initialisation failed", 0, 0)])
              /\ UNCHANGED <<produced, worker, loop>>
    /\ UNCHANGED <<guidelines_db, response, reports_db, tasks_db, task_queues, running_async_tasks,
                   taken, sub, scratch, results_files>>

(* A cancellation that also reaches the routine at the put of the completed *)
(* event, as if that put on the queue could suspend.                        *)
OrchCancelledAtPut(t) ==
    /\ \/ /\ loop = "idle"
          /\ orch[t].pc \in {"await_index", "await_retrieve", "await_check"}
          /\ orch[t].must_cancel
       \/ /\ loop = t
          /\ orch[t].pc = "emit_completed"
    /\ OrchVars(t, [orch[t] EXCEPT !.pc = "on_cancel", !.must_cancel = FALSE])
    /\ loop' = t
    /\ UNCHANGED <<guidelines_db, response, reports_db, tasks_db, task_queues, running_async_tasks,
                   produced, taken, worker, sub, scratch, results_files>>

(* A requested cancellation reaches the routine at the await where it is *)
(* suspended, whether or not the awaited thread has finished.            *)
OrchCancelled(t) ==
    /\ loop = "idle"
    /\ orch[t].pc \in {"await_index", "await_retrieve", "await_check"}
    /\ orch[t].must_cancel
    /\ OrchVars(t, [orch[t] EXCEPT !.pc = "on_cancel", !.must_cancel = FALSE])
    /\ loop' = t
    /\ UNCHANGED <<guidelines_db, response, reports_db, tasks_db, task_queues, running_async_tasks,
                   produced, taken, worker, sub, scratch, results_files>>

(* The loop head of process_document (line 125): suspend in the retrieval of *)
(* requirement i, or leave the loop with the final summary (lines 182-196).  *)
EnterRequirement(t, o, i) ==
    IF i <= N(t)
    THEN /\ OrchVars(t, [o EXCEPT !.i = i, !.pc = "await_retrieve"])
         /\ loop' = "idle"
    ELSE /\ OrchVars(t, [o EXCEPT !.pc = "persist",
                                 !.summary = _calculate_summary(o.results)])
         /\ loop' = t

(* Lines 115-125: the indexing thread is over; its exception propagates, its *)
(* return is announced with progress 20 and the requirement loop begins.     *)
OrchIndexed(t) ==
    /\ loop = "idle"
    /\ orch[t].pc = "await_index"
    /\ ~orch[t].must_cancel
    /\ worker[t].pc \in {"returned", "raised"}
    /\ IF worker[t].pc = "raised"
       THEN /\ OrchVars(t, [orch[t] EXCEPT !.pc = "on_error",
                   !.exc = Msg("indexing failed", 0, 0)])
            /\ loop' = t
            /\ UNCHANGED produced
       ELSE /\ produced' = Put(produced, t,
                   ProgressEvent(t, 20, Msg("Report indexed. Starting analysis...",
                                            worker[t].total, 0)))
            /\ EnterRequirement(t, orch[t], 1)
    /\ UNCHANGED <<guidelines_db, response, reports_db, tasks_db, task_queues, running_async_tasks,
                   taken, worker, sub, scratch, results_files>>

(* Lines 131-143: the retrieval thread returns (the evaluation thread is *)
(* started and awaited) or raises.                                       *)
OrchRetrieved(t) ==
    /\ loop = "idle"
    /\ orch[t].pc = "await_retrieve"
    /\ ~orch[t].must_cancel
    /\ \E ok \in BOOLEAN :
         IF ok
         THEN /\ OrchVars(t, [orch[t] EXCEPT !.pc = "await_check"])
              /\ UNCHANGED loop
         ELSE /\ OrchVars(t, [orch[t] EXCEPT !.pc = "req_except",
                                            !.raised = @ \cup {orch[t].i}])
              /\ loop' = t
    /\ UNCHANGED <<guidelines_db, response, reports_db, tasks_db, task_queues, running_async_tasks,
                   produced, taken, worker, sub, scratch, results_files>>

(* Lines 139-157: the evaluation returns a verdict that passes             *)
(* _validate_result_schema (row, progress, event) or raises.               *)
OrchChecked(t) ==
    LET i == orch[t].i IN
    /\ loop = "idle"
    /\ orch[t].pc = "await_check"
    /\ ~orch[t].must_cancel
    /\ \E verdict \in valid_statuses \cup {"raise"} :
         IF verdict = "raise"
         THEN /\ OrchVars(t, [orch[t] EXCEPT !.pc = "req_except",
                                            !.raised = @ \cup {i}])
              /\ loop' = t
              /\ UNCHANGED produced
         ELSE LET row == CheckedRow(orch[t].all_requirements[i], verdict)
                  results == Append(orch[t].results, row)
                  progress == CheckProgress(i, N(t))
              IN  /\ produced' = Put(produced, t,
                         RowEvent(t, progress, Msg("Checked requirement", i, N(t)),
                                  row, _calculate_summary(results)))
                  /\ EnterRequirement(t, [orch[t] EXCEPT !.results = results,
                                            !.progress = progress,
                                            !.progress_bound = TRUE], i + 1)
    /\ UNCHANGED <<guidelines_db, response, reports_db, tasks_db, task_queues, running_async_tasks,
                   taken, worker, sub, scratch, results_files>>

(* The handler with the append of line 172 left out. *)
ErrorResultsDropped(results, requirement) == results

(* Lines 162-172: the handler's row, appended to the running result list. *)
ErrorResults(results, requirement) == Append(results, ErrorRow(requirement))

(* Lines 159-179: the per-requirement handler appends an Error row and emits  *)
(* an event with the local `progress`, which is only bound once a requirement *)
(* has succeeded: before that, reading it raises UnboundLocalError, which     *)
(* leaves process_document.                                                   *)
OrchReqExcept(t) ==
    LET i == orch[t].i
        row == ErrorRow(orch[t].all_requirements[i])
        results == ErrorResults(orch[t].results, orch[t].all_requirements[i])
    IN
    /\ loop = t
    /\ orch[t].pc = "req_except"
    /\ IF orch[t].progress_bound
       THEN /\ produced' = Put(produced, t,
                   RowEvent(t, orch[t].progress, Msg("Error checking requirement", i, N(t)),
                            row, _calculate_summary(results)))
            /\ EnterRequirement(t, [orch[t] EXCEPT !.results = results], i + 1)
       ELSE /\ OrchVars(t, [orch[t] EXCEPT !.results = results, !.pc = "on_error",
                   !.exc = Msg("UnboundLocalError: progress", 0, 0)])
            /\ UNCHANGED <<produced, loop>>
    /\ UNCHANGED <<guidelines_db, response, reports_db, tasks_db, task_queues, running_async_tasks,
                   taken, worker, sub, scratch, results_files>>

(* The record written with the rows but an empty summary. *)
ResultsRecordNoSummary(t, o) ==
    [task_id |-> t, report_filename |-> tasks_db[t].report_filename,
     guideline_ids |-> o.guideline_ids, status |-> "completed",
     results |-> o.results, summary |-> EmptySummary]

(* Lines 169-189: write <task_id>.json. *)
ResultsRecord(t, o) ==
    [task_id |-> t, report_filename |-> tasks_db[t].report_filename,
     guideline_ids |-> o.guideline_ids, status |-> "completed",
     results |-> o.results, summary |-> o.summary]

(* The OSError of a failed write names the file it was writing. *)
ResultsWriteError == Msg("OSError: results file", 0, 0)

(* What is left of <task_id>.json when json.dump raises. *)
TruncatedFile == [status |-> "truncated"]

OrchPersist(t) ==
    /\ loop = t
    /\ orch[t].pc = "persist"
    /\ \E write \in WriteOutcomes :
         /\ results_files' =
               IF write = "open_failed" THEN results_files
               ELSE [f \in DOMAIN results_files \cup {t} |->
                       IF f # t THEN results_files[f]
                       ELSE IF write = "written" THEN ResultsRecord(t, orch[t])
                       ELSE TruncatedFile]
         /\ OrchVars(t, IF write = "written"
                        THEN [orch[t] EXCEPT !.pc = "emit_completed"]
                        ELSE [orch[t] EXCEPT !.pc = "on_error", !.exc = ResultsWriteError])
    /\ UNCHANGED <<guidelines_db, response, reports_db, tasks_db, task_queues, running_async_tasks,
                   produced, taken, worker, sub, loop, scratch>>

(* Lines 191-197: the completed event with the full rows and summary. *)
OrchEmitCompleted(t) ==
    /\ loop = t
    /\ orch[t].pc = "emit_completed"
    /\ produced' = Put(produced, t, CompletedEvent(t, orch[t].results, orch[t].summary))
    /\ OrchVars(t, [orch[t] EXCEPT !.pc = "finally", !.outcome = "completed"])
    /\ UNCHANGED <<guidelines_db, response, reports_db, tasks_db, task_queues, running_async_tasks,
                   taken, worker, sub, loop, scratch, results_files>>

(* Lines 199-205: CancelledError: the snapshot is set to failed, then the *)
(* failed event is put.                                                   *)
OrchOnCancel(t) ==
    /\ loop = t
    /\ orch[t].pc = "on_cancel"
    /\ tasks_db' = update_task(tasks_db, t,
                       [status |-> "failed", message |-> CancelledMessage])
    /\ produced' = Put(produced, t, FailedEvent(t, CancelledMessage))
    /\ OrchVars(t, [orch[t] EXCEPT !.pc = "finally", !.outcome = "cancelled"])
    /\ UNCHANGED <<guidelines_db, response, reports_db, task_queues, running_async_tasks,
                   taken, worker, sub, loop, scratch, results_files>>

(* Lines 206-209: any other exception: the failed event is put, then the *)
(* snapshot is set to failed.                                            *)
OrchOnError(t) ==
    /\ loop = t
    /\ orch[t].pc = "on_error"
    /\ produced' = Put(produced, t, FailedEvent(t, orch[t].exc))
    /\ tasks_db' = update_task(tasks_db, t,
                       [status |-> "failed", message |-> orch[t].exc])
    /\ OrchVars(t, [orch[t] EXCEPT !.pc = "finally", !.outcome = "failed"])
    /\ UNCHANGED <<guidelines_db, response, reports_db, task_queues, running_async_tasks,
                   taken, worker, sub, loop, scratch, results_files>>

(* The finally block without its removals. *)
CleanupSkipped(entries, task_id) == entries

(* Lines 216-222: unlink the file / delete the key when it is there. *)
Cleanup(entries, task_id) == entries \ {task_id}

(* Lines 210-222: the sentinel, the scratch file, the registries. *)
OrchFinally(t) ==
    /\ loop = t
    /\ orch[t].pc = "finally"
    /\ produced' = Put(produced, t, None)
    /\ scratch' = Cleanup(scratch, t)
    /\ running_async_tasks' = Cleanup(running_async_tasks, t)
    /\ task_queues' = Cleanup(task_queues, t)
    /\ OrchVars(t, [orch[t] EXCEPT !.pc = "done"])
    /\ loop' = "idle"
    /\ UNCHANGED <<guidelines_db, response, reports_db, tasks_db, taken, worker, sub,
                   results_files>>

-----------------------------------------------------------------------------
(* The thread of asyncio.to_thread(self._build_report_vectorstore, ...)       *)
(* (hybrid_fixed_checklist_checker.py lines 198-240).  It posts its events    *)
(* with queue.put_nowait from outside the event loop and keeps running after  *)
(* the routine that awaits it has been cancelled.                             *)

(* The extractor: it raises, or it extracts `total` pages and reports each *)
(* one through progress_callback(current, total).                           *)
ExtractorCallbacks(total) == [c \in 1..total |-> [current |-> c, total |-> total]]

WorkerExtract(t) ==
    /\ worker[t].pc = "extract"
    /\ \E raised \in BOOLEAN, total \in 0..MaxPages :
         worker' = [worker EXCEPT ![t] =
                      IF raised THEN [@ EXCEPT !.pc = "raised"]
                      ELSE [@ EXCEPT !.pc = "pages", !.total = total]]
    /\ UNCHANGED <<guidelines_db, response, reports_db, tasks_db, task_queues, running_async_tasks,
                   produced, taken, orch, sub, loop, scratch, results_files>>

(* Lines 203-210: _progress_callback. *)
WorkerPage(t) ==
    LET call == ExtractorCallbacks(worker[t].total)[worker[t].current + 1] IN
    /\ worker[t].pc = "pages"
    /\ worker[t].current < worker[t].total
    /\ produced' = Put(produced, t,
           ProgressEvent(t, PageProgress(call.current, call.total),
                         Msg("Indexing: Extracting page", call.current, call.total)))
    /\ worker' = [worker EXCEPT ![t].current = call.current]
    /\ UNCHANGED <<guidelines_db, response, reports_db, tasks_db, task_queues, running_async_tasks,
                   taken, orch, sub, loop, scratch, results_files>>

(* Lines 216-234. *)
WorkerChunk(t) ==
    /\ worker[t].pc = "pages"
    /\ worker[t].current = worker[t].total
    /\ produced' = Put(produced, t, ProgressEvent(t, 15, Msg("Chunking document...", 0, 0)))
    /\ worker' = [worker EXCEPT ![t].pc = "embed"]
    /\ UNCHANGED <<guidelines_db, response, reports_db, tasks_db, task_queues, running_async_tasks,
                   taken, orch, sub, loop, scratch, results_files>>

(* Lines 236-240: FAISS.from_documents returns or raises. *)
WorkerEmbed(t) ==
    /\ worker[t].pc = "embed"
    /\ produced' = Put(produced, t,
           ProgressEvent(t, 18, Msg("Creating vector embeddings...", 0, 0)))
    /\ \E ok \in BOOLEAN :
         worker' = [worker EXCEPT ![t].pc = IF ok THEN "returned" ELSE "raised"]
    /\ UNCHANGED <<guidelines_db, response, reports_db, tasks_db, task_queues, running_async_tasks,
                   taken, orch, sub, loop, scratch, results_files>>

-----------------------------------------------------------------------------
(* The service: requests arrive in any order and at any time. *)

(* The calls of start_match that change the state: a rejected request without *)
(* a file changes nothing (a stuttering step), and every other call needs a   *)
(* fresh task id or a fresh report id.                                        *)
StartMatchRequest ==
    /\ loop = "idle"
    /\ TaskIds \ DOMAIN tasks_db # {} \/ ReportIds \ reports_db # {}
    /\ \E req \in Requests, r \in ReportIds \cup {NoReport}, t \in TaskIds :
          /\ StartMatchError(req) = 0 \/ req.upload = "pdf"
          /\ start_match(req, r, t)

(* The steps of the routines and indexing threads of the tasks in T and of the *)
(* subscriptions in S, and the requests that concern an existing task.         *)
RunOn(T, S) ==
    \/ \E t \in T : OrchStart(t)
    \/ \E t \in T : OrchConsolidate(t)
    \/ \E t \in T : OrchCheckerInit(t)
    \/ \E t \in T : OrchIndexed(t)
    \/ \E t \in T : OrchRetrieved(t)
    \/ \E t \in T : OrchChecked(t)
    \/ \E t \in T : OrchReqExcept(t)
    \/ \E t \in T : OrchPersist(t)
    \/ \E t \in T : OrchEmitCompleted(t)
    \/ \E t \in T : OrchOnError(t)
    \/ \E t \in T : OrchFinally(t)
    \/ \E t \in T : WorkerExtract(t)
    \/ \E t \in T : WorkerPage(t)
    \/ \E t \in T : WorkerChunk(t)
    \/ \E t \in T : WorkerEmbed(t)
    \/ \E s \in S, t \in T : stream_task_status(s, t)
    \/ \E s \in S : SubStart(s)
    \/ \E s \in S : SubCheck(s)
    \/ \E s \in S : SubGet(s)
    \/ \E s \in S : SubNext(s)

CancellationOn(T, S) ==
    \/ \E t \in T : cancel_task(t)
    \/ \E s \in S : ClientDisconnect(s)
    \/ \E s \in S : SubCancelled(s)
    \/ \E t \in T : OrchNeverStarted(t)
    \/ \E t \in T : OrchCancelled(t)
    \/ \E t \in T : OrchOnCancel(t)

Run(S) == RunOn(TaskIds, S)

Cancellation(S) == CancellationOn(TaskIds, S)

(* The requests that only read, and Return. *)
Reads ==
    \/ list_tasks
    \/ \E t \in TaskIds : get_task_status(t)
    \/ \E t \in TaskIds : download_compliance_report(t)

Next ==
    \/ \E r \in ReportIds : upload_report("pdf", r)
    \/ StartMatchRequest
    \/ Run(SubIds)
    \/ Cancellation(SubIds)
    \/ Return

Spec == Init /\ [][Next]_vars

(* process_compliance_check called on every argument its signature admits:  *)
(* the task is registered as by start_match steps 3-5, with or without a     *)
(* report path.                                                              *)
RunRequest ==
    /\ loop = "idle"
    /\ \E t \in TaskIds \ DOMAIN tasks_db, report_path \in ReportIds \cup {NoReport},
          guideline_ids \in SeqsUpTo(GuidelineIds, MaxSel) :
          /\ Len(Consolidate(guidelines_db, guideline_ids)) <= MaxReqs
          /\ CreateTask(t, report_path, guideline_ids)
    /\ UNCHANGED <<guidelines_db, response, reports_db, worker, sub, loop, scratch, results_files>>

NextRun ==
    \/ RunRequest
    \/ \E t \in TaskIds : OrchListRequirement(t)
    \/ Run(SubIds)
    \/ Cancellation(SubIds)
    \/ Return

SpecRun == Init /\ [][NextRun]_vars

(* Two subscriptions on the same task, with no cancellation and no disconnect: *)
(* a report is posted to start_match together with checklist g1.             *)
TwoRequest ==
    \E t \in TaskIds, r \in ReportIds :
        start_match([upload |-> "pdf", body_ok |-> TRUE, report_id |-> NoReport,
                     guideline_ids |-> <<"g1">>], r, t)

NextTwo ==
    \/ TwoRequest
    \/ Run(AllSubIds)
    \/ Return

SpecTwo == Init /\ [][NextTwo]_vars

(* The API on one checklist: every handler, start_match on accepted and on *)
(* rejected requests that name one or two checklist ids, known or not.     *)
ApiSamples ==
    {req \in Requests :
        /\ req.upload # "none" => req.report_id = NoReport
        /\ req.guideline_ids \in {<<"g1">>, <<UnknownGuideline>>, <<"g1", UnknownGuideline>>}}

ApiRequest ==
    \E req \in ApiSamples, r \in ReportIds \cup {NoReport}, t \in TaskIds :
       start_match(req, r, t)

NextApi ==
    \/ \E file \in UploadKinds, r \in ReportIds : upload_report(file, r)
    \/ ApiRequest
    \/ Reads
    \/ Run(SubIds)
    \/ Cancellation(SubIds)
    \/ Return

SpecApi == Init /\ [][NextApi]_vars

(* Two tasks side by side: process_compliance_check is scheduled, as by      *)
(* start_match steps 3-5, for two task ids on checklist g1, one of them with *)
(* a report and one without.                                                 *)
PairRequest ==
    /\ loop = "idle"
    /\ \E t \in AllTaskIds \ DOMAIN tasks_db :
          CreateTask(t, IF t \in TaskIds THEN "r1" ELSE NoReport, <<"g1">>)
    /\ UNCHANGED <<guidelines_db, response, reports_db, worker, sub, loop, scratch, results_files>>

NextPair ==
    \/ PairRequest
    \/ \E t \in AllTaskIds : OrchListRequirement(t)
    \/ RunOn(AllTaskIds, SubIds)
    \/ \E t \in AllTaskIds : cancel_task(t)
    \/ \E t \in AllTaskIds : OrchNeverStarted(t)
    \/ \E t \in AllTaskIds : OrchCancelled(t)
    \/ \E t \in AllTaskIds : OrchOnCancel(t)
    \/ Return

SpecPair == Init /\ [][NextPair]_vars

(* The example run: a report checked against one checklist of three *)
(* requirements, on a service that has loaded only that checklist.   *)
ThreeRequirements == [g \in {"g3"} |-> <<"R1", "R2", "R3">>]

InitThree ==
    /\ guidelines_db = ThreeRequirements
    /\ reports_db = {}
    /\ tasks_db = <<>>
    /\ task_queues = {}
    /\ running_async_tasks = {}
    /\ produced = [t \in AllTaskIds |-> <<>>]
    /\ taken = [t \in AllTaskIds |-> 0]
    /\ orch = [t \in AllTaskIds |-> NoOrch]
    /\ worker = [t \in AllTaskIds |-> NoWorker]
    /\ sub = [s \in AllSubIds |-> NoSub]
    /\ loop = "idle"
    /\ response = NoResponse
    /\ scratch = {}
    /\ results_files = <<>>

ThreeRequest ==
    /\ loop = "idle"
    /\ \E t \in TaskIds \ DOMAIN tasks_db, report_path \in ReportIds :
          CreateTask(t, report_path, <<"g3">>)
    /\ UNCHANGED <<guidelines_db, response, reports_db, worker, sub, loop, scratch, results_files>>

NextThree ==
    \/ ThreeRequest
    \/ \E t \in TaskIds : OrchStart(t)
    \/ \E t \in TaskIds : OrchConsolidate(t)
    \/ \E t \in TaskIds : OrchCheckerInit(t)
    \/ \E t \in TaskIds : OrchIndexed(t)
    \/ \E t \in TaskIds : OrchRetrieved(t)
    \/ \E t \in TaskIds : OrchChecked(t)
    \/ \E t \in TaskIds : OrchReqExcept(t)
    \/ \E t \in TaskIds : OrchPersist(t)
    \/ \E t \in TaskIds : OrchEmitCompleted(t)
    \/ \E t \in TaskIds : OrchOnError(t)
    \/ \E t \in TaskIds : OrchFinally(t)
    \/ \E t \in TaskIds : WorkerExtract(t)
    \/ \E t \in TaskIds : WorkerPage(t)
    \/ \E t \in TaskIds : WorkerChunk(t)
    \/ \E t \in TaskIds : WorkerEmbed(t)

SpecThree == InitThree /\ [][NextThree]_vars

(* A guideline-only run over one checklist of ten requirements, with one *)
(* stream that stays connected.                                           *)
TenRequirements ==
    [g \in {"g10"} |-> <<"R1", "R2", "R3", "R4", "R5", "R6", "R7", "R8", "R9", "R10">>]

InitTen ==
    /\ guidelines_db = TenRequirements
    /\ reports_db = {}
    /\ tasks_db = <<>>
    /\ task_queues = {}
    /\ running_async_tasks = {}
    /\ produced = [t \in AllTaskIds |-> <<>>]
    /\ taken = [t \in AllTaskIds |-> 0]
    /\ orch = [t \in AllTaskIds |-> NoOrch]
    /\ worker = [t \in AllTaskIds |-> NoWorker]
    /\ sub = [s \in AllSubIds |-> NoSub]
    /\ loop = "idle"
    /\ response = NoResponse
    /\ scratch = {}
    /\ results_files = <<>>

TenRequest ==
    /\ loop = "idle"
    /\ \E t \in TaskIds \ DOMAIN tasks_db : CreateTask(t, NoReport, <<"g10">>)
    /\ UNCHANGED <<guidelines_db, response, reports_db, worker, sub, loop, scratch, results_files>>

NextTen ==
    \/ TenRequest
    \/ \E t \in TaskIds : OrchStart(t)
    \/ \E t \in TaskIds : OrchConsolidate(t)
    \/ \E t \in TaskIds : OrchListRequirement(t)
    \/ \E t \in TaskIds : OrchPersist(t)
    \/ \E t \in TaskIds : OrchEmitCompleted(t)
    \/ \E t \in TaskIds : OrchOnError(t)
    \/ \E t \in TaskIds : OrchFinally(t)
    \/ \E s \in SubIds, t \in TaskIds : stream_task_status(s, t)
    \/ \E s \in SubIds : SubStart(s)
    \/ \E s \in SubIds : SubCheck(s)
    \/ \E s \in SubIds : SubGet(s)
    \/ \E s \in SubIds : SubNext(s)
    \/ Return

SpecTen == InitTen /\ [][NextTen]_vars

(* Startup.  A checklist file either fails to parse or is a JSON object that *)
(* may hold a "checklist_name" key and a "requirements" key with a list.     *)
Unparsable ==
    [parses |-> FALSE, checklist_name |-> FALSE, has_requirements |-> FALSE,
     requirements |-> <<>>]

ChecklistFiles ==
    {Unparsable} \cup
    [parses : {TRUE}, checklist_name : BOOLEAN, has_requirements : {FALSE},
     requirements : {<<>>}] \cup
    [parses : {TRUE}, checklist_name : BOOLEAN, has_requirements : {TRUE},
     requirements : {<<>>, <<"R1">>}]

(* CHECKLISTS_DIR: the files by stem. *)
Directories ==
    UNION {[stems -> ChecklistFiles] : stems \in SUBSET GuidelineIds}

(* Lines 52-59: json.load succeeded and both keys are present. *)
Registers(file) ==
    /\ file.parses
    /\ file.checklist_name
    /\ file.has_requirements

(* Lines 51-75: every file of the directory is tried; a file that raises or *)
(* is skipped leaves guidelines_db as it was and the scan goes on.          *)
load_existing_guidelines(dir) ==
    [g \in {stem \in DOMAIN dir : Registers(dir[stem])} |-> dir[g].requirements]

InitLoad ==
    /\ \E dir \in Directories : guidelines_db = load_existing_guidelines(dir)
    /\ reports_db = {}
    /\ tasks_db = <<>>
    /\ task_queues = {}
    /\ running_async_tasks = {}
    /\ produced = [t \in AllTaskIds |-> <<>>]
    /\ taken = [t \in AllTaskIds |-> 0]
    /\ orch = [t \in AllTaskIds |-> NoOrch]
    /\ worker = [t \in AllTaskIds |-> NoWorker]
    /\ sub = [s \in AllSubIds |-> NoSub]
    /\ loop = "idle"
    /\ response = NoResponse
    /\ scratch = {}
    /\ results_files = <<>>

(* A guideline-only run over one of the loaded checklists. *)
LoadedRequest ==
    /\ loop = "idle"
    /\ \E t \in TaskIds \ DOMAIN tasks_db, g \in DOMAIN guidelines_db :
          CreateTask(t, NoReport, <<g>>)
    /\ UNCHANGED <<guidelines_db, response, reports_db, worker, sub, loop, scratch, results_files>>

NextLoad ==
    \/ LoadedRequest
    \/ \E t \in TaskIds : OrchStart(t)
    \/ \E t \in TaskIds : OrchConsolidate(t)
    \/ \E t \in TaskIds : OrchListRequirement(t)
    \/ \E t \in TaskIds : OrchPersist(t)
    \/ \E t \in TaskIds : OrchEmitCompleted(t)
    \/ \E t \in TaskIds : OrchOnError(t)
    \/ \E t \in TaskIds : OrchFinally(t)
    \/ \E s \in SubIds, t \in TaskIds : stream_task_status(s, t)
    \/ \E s \in SubIds : SubStart(s)
    \/ \E s \in SubIds : SubCheck(s)
    \/ \E s \in SubIds : SubGet(s)
    \/ \E s \in SubIds : SubNext(s)
    \/ Return

SpecLoad == InitLoad /\ [][NextLoad]_vars

(* The service with no cancel request and no disconnect, under the scheduling *)
(* of asyncio: the event loop runs every ready callback in turn, so a         *)
(* response that is ready is sent and a routine that can take a step takes    *)
(* it; the thread pool runs the indexing thread to its end.                   *)
OrchStep(t) ==
    \/ OrchStart(t)
    \/ OrchConsolidate(t)
    \/ OrchCheckerInit(t)
    \/ OrchIndexed(t)
    \/ OrchRetrieved(t)
    \/ OrchChecked(t)
    \/ OrchReqExcept(t)
    \/ OrchPersist(t)
    \/ OrchEmitCompleted(t)
    \/ OrchOnError(t)
    \/ OrchFinally(t)

WorkerStep(t) ==
    \/ WorkerExtract(t)
    \/ WorkerPage(t)
    \/ WorkerChunk(t)
    \/ WorkerEmbed(t)

NextLive ==
    \/ \E r \in ReportIds : upload_report("pdf", r)
    \/ StartMatchRequest
    \/ Run(SubIds)
    \/ Return

Scheduling ==
    /\ WF_vars(Return)
    /\ \A t \in TaskIds : WF_vars(OrchStep(t))
    /\ \A t \in TaskIds : WF_vars(WorkerStep(t))

SpecLive == Init /\ [][NextLive]_vars /\ Scheduling

-----------------------------------------------------------------------------
(* Properties of the task lifecycle. *)

(* The fields of a snapshot that the progress events carry. *)
StatusFields == {"status", "progress", "message", "result"}

Subscribers(task_id) == {s \in AllSubIds : sub[s].pc # "absent" /\ sub[s].task = task_id}

(* Every stream opened on the task has ended. *)
NoOpenStream(task_id) == \A s \in Subscribers(task_id) : sub[s].pc = "closed"

IsEvent(item) == item # None

HasTerminalStatus(item) == IsEvent(item) /\ item.status \in Terminal

(* C1: once the snapshot of a task has status completed or failed, no step of  *)
(* process_compliance_check, event_generator or cancel_task changes its status, *)
(* progress, message or result again.                                          *)
C1_TerminalSnapshotFrozen ==
    [][\A t \in DOMAIN tasks_db :
          tasks_db[t].status \in Terminal =>
             \A k \in StatusFields : tasks_db'[t][k] = tasks_db[t][k]]_vars

(* C2: when a run is cancelled after k < N requirements and everything has     *)
(* ended, the snapshot is failed with 'Task cancelled by user.', there is no   *)
(* results file, and a subscriber that read to the sentinel saw the failed     *)
(* event last and never a completed event.                                     *)
C2_CancelledRunEndsFailed ==
    \A t \in DOMAIN tasks_db :
       (/\ Done(t)
        /\ orch[t].outcome = "cancelled"
        /\ Len(orch[t].results) < N(t)
        /\ NoOpenStream(t))
       => /\ tasks_db[t].status = "failed"
          /\ tasks_db[t].message = CancelledMessage
          /\ t \in DOMAIN results_files => results_files[t].status # "completed"
          /\ \A s \in Subscribers(t) :
                /\ \A k \in 1..Len(sub[s].yielded) : sub[s].yielded[k].status # "completed"
                /\ sub[s].exit = "sentinel" =>
                      /\ sub[s].yielded # <<>>
                      /\ sub[s].yielded[Len(sub[s].yielded)] = FailedEvent(t, CancelledMessage)

(* C3: in every state, the snapshot of a task agrees, on status, progress,   *)
(* message and result, with the most recent event a subscriber was yielded.  *)
C3_SnapshotEqualsLastYielded ==
    \A s \in AllSubIds :
       (sub[s].pc # "absent" /\ sub[s].yielded # <<>>) =>
          LET last == sub[s].yielded[Len(sub[s].yielded)]
          IN  \A k \in StatusFields \cap DOMAIN last :
                 tasks_db[sub[s].task][k] = last[k]

WithDocument(task_id) == orch[task_id].report_path # NoReport

(* The requirement list the routine is to work through, from the request. *)
Selected(task_id) == Consolidate(guidelines_db, orch[task_id].guideline_ids)

(* The rows carry, position by position, the ids of the given requirements. *)
RowsFollow(rows, requirements) ==
    /\ Len(rows) = Len(requirements)
    /\ \A i \in 1..Len(rows) : rows[i].requirement_id = requirements[i]

CompletedEvents(task_id) ==
    {k \in 1..Len(produced[task_id]) :
        /\ IsEvent(produced[task_id][k])
        /\ produced[task_id][k].status = "completed"}

FirstTerminal(task_id) ==
    LET q == produced[task_id]
        terminal == {k \in 1..Len(q) : HasTerminalStatus(q[k])}
    IN  IF terminal = {} THEN Len(q) + 1
        ELSE CHOOSE k \in terminal : \A j \in terminal : k <= j

CarriesProgress(item) == IsEvent(item) /\ "progress" \in DOMAIN item

QueueProgressMonotone ==
    \A t \in TaskIds :
       \A a, b \in 1..Len(produced[t]) :
          (/\ a < b
           /\ b <= FirstTerminal(t)
           /\ CarriesProgress(produced[t][a])
           /\ CarriesProgress(produced[t][b]))
          => produced[t][a].progress <= produced[t][b].progress

SnapshotProgressMonotone ==
    \A t \in DOMAIN tasks_db :
       tasks_db[t].status \notin Terminal => tasks_db'[t].progress >= tasks_db[t].progress

Events(task_id) == SelectSeq(produced[task_id], IsEvent)

IsPrefix(p, q) == Len(p) <= Len(q) /\ SubSeq(q, 1, Len(p)) = p

(* C7: what a subscriber has been yielded is a prefix of the events produced *)
(* for the task: nothing dropped, duplicated or reordered.                   *)
C7_YieldedIsPrefixOfProduced ==
    \A s \in AllSubIds :
       sub[s].pc # "absent" => IsPrefix(sub[s].yielded, Events(sub[s].task))

Sentinels(task_id) ==
    Cardinality({k \in 1..Len(produced[task_id]) : produced[task_id][k] = None})

(* The routine has got past its queue lookup, into the try block. *)
EnteredTry(task_id) ==
    /\ orch[task_id].pc \notin {"absent", "scheduled"}
    /\ orch[task_id].outcome \notin {"never_started", "no_queue"}

(* C8: a run that entered the try block puts exactly one sentinel, at its   *)
(* end, whatever the exit path; once it has finished, the task is in neither *)
(* task_queues nor running_async_tasks and its scratch file is gone.         *)
C8_FinallyAlwaysCleansUp ==
    \A t \in TaskIds :
       /\ Sentinels(t) = IF EnteredTry(t) /\ Done(t) THEN 1 ELSE 0
       /\ (EnteredTry(t) /\ Done(t)) =>
             /\ t \notin task_queues
             /\ t \notin running_async_tasks
             /\ t \notin scratch

(* A cancelled run has gone through its finally block. *)
C8_Witness ==
    \E t \in TaskIds :
       EnteredTry(t) /\ Done(t) /\ orch[t].outcome = "cancelled" /\ Sentinels(t) = 1

C10_SnapshotFollowsRoutine ==
    \A t \in DOMAIN tasks_db :
       /\ (EnteredTry(t) /\ loop # t /\ Subscribers(t) = {}) =>
             tasks_db[t].status # "pending"
       /\ (Done(t) /\ orch[t].outcome = "completed" /\ NoOpenStream(t)) =>
             /\ tasks_db[t].status = "completed"
             /\ tasks_db[t].progress = 100
             /\ tasks_db[t].result =
                   [rows |-> orch[t].results, summary |-> orch[t].summary]

-----------------------------------------------------------------------------
(* Properties of the HTTP handlers. *)

Answering(op) == response.op = op

NamesUnknown(req) ==
    \E k \in 1..Len(req.guideline_ids) : req.guideline_ids[k] \notin DOMAIN guidelines_db

(* A call of start_match that names an unknown checklist leaves the task *)
(* registries as they are.                                               *)
RejectedCreatesNothing ==
    (Answering("none") /\ response'.op = "start_match"
       /\ response'.request.body_ok /\ NamesUnknown(response'.request))
    => UNCHANGED <<tasks_db, task_queues, running_async_tasks, orch>>

UnknownChecklistIs404 ==
    (Answering("start_match") /\ response.request.body_ok /\ NamesUnknown(response.request))
    => response.code = 404

(* C11 as stated: start_match called with a list of checklist ids, one of  *)
(* which is not in guidelines_db, answers 404 and leaves tasks_db,         *)
(* task_queues and running_async_tasks unchanged.                          *)
C11_UnknownChecklistAlways404 ==
    /\ []UnknownChecklistIs404
    /\ [][RejectedCreatesNothing]_vars

UnknownChecklistIs404Or400 ==
    (Answering("start_match") /\ response.request.body_ok /\ NamesUnknown(response.request))
    => response.code = IF response.request.upload \in {"other", "unsaved"} THEN 400 ELSE 404

(* C11 amended: such a call answers 404, or 400 when its file is no PDF or *)
(* cannot be saved, and in either case leaves tasks_db, task_queues and    *)
(* running_async_tasks unchanged.                                          *)
C11_UnknownChecklistRejected ==
    /\ []UnknownChecklistIs404Or400
    /\ [][RejectedCreatesNothing]_vars

(* start_match has saved the uploaded PDF and answers 404 for the unknown *)
(* checklist named next to a known one; no task exists.                   *)
C11_Witness ==
    /\ Answering("start_match")
    /\ response.request.upload = "pdf"
    /\ response.request.guideline_ids = <<"g1", UnknownGuideline>>
    /\ response.code = 404
    /\ reports_db # {}
    /\ tasks_db = <<>>

(* A guideline-only run that completed listed every requirement as Not *)
(* Checked and never started the indexing thread.                      *)
GuidelineOnlyRun(t) ==
    (~WithDocument(t) /\ orch[t].outcome = "completed") =>
       /\ RowsFollow(orch[t].results, Selected(t))
       /\ \A i \in 1..Len(orch[t].results) : orch[t].results[i].status = "Not Checked"
       /\ orch[t].summary.total = Len(Selected(t))
       /\ orch[t].summary.compliant = 0
       /\ orch[t].summary.non_compliant = 0
       /\ orch[t].summary.partially_compliant = 0
       /\ worker[t] = NoWorker
       /\ orch[t].raised = {}

(* C12: a submission with no document and known checklists of N requirements *)
(* is accepted, and its task completes with N rows, all Not Checked, the     *)
(* summary total = N with no compliant, non-compliant or partial row, and no *)
(* call of the extractor, retriever or evaluator.                            *)
C12_NoDocumentSubmission ==
    /\ (/\ Answering("start_match")
        /\ response.request.upload = "none"
        /\ response.request.body_ok
        /\ response.request.report_id = NoReport
        /\ ~NamesUnknown(response.request))
       => response.code = 200
    /\ \A t \in DOMAIN tasks_db : GuidelineOnlyRun(t)

(* The run of the task has ended: completed, failed or cancelled. *)
RunEnded(t) == Done(t) /\ orch[t].outcome \in {"completed", "failed", "cancelled"}

CancelTaskCodes ==
    \A t \in DOMAIN tasks_db :
       /\ RunEnded(t) => CancelTaskCode(t) = 400
       /\ (~RunEnded(t) /\ tasks_db[t].status \in {"pending", "processing"}
             /\ t \notin running_async_tasks) => CancelTaskCode(t) = 404
       /\ (Answering("cancel_task") /\ response.request = t /\ response.code = 200)
             => orch[t].must_cancel

RefusedCancelsNothing ==
    (Answering("none") /\ response'.op = "cancel_task" /\ response'.code # 200)
    => UNCHANGED <<orch, tasks_db, task_queues>>

(* C13: cancel_task answers 400 whenever the task's run has completed or     *)
(* failed, 404 when the task is still pending or processing with no handle   *)
(* registered, and otherwise requests cancellation; the error cases cancel   *)
(* nothing.                                                                  *)
C13_CancelTaskAnswers ==
    /\ []CancelTaskCodes
    /\ [][RefusedCancelsNothing]_vars

WorkerStopped(t) == worker[t].pc \in {"absent", "returned", "raised"}

(* The generator of a connected client waits in queue.get() on a queue that *)
(* nothing will be put on: no step of the program ends this subscription.   *)
BlockedForGood(s) ==
    LET t == sub[s].task IN
    /\ sub[s].pc = "get"
    /\ ~sub[s].gone
    /\ Done(t)
    /\ WorkerStopped(t)
    /\ Queue(t) = <<>>

StreamCodes ==
    \A t \in TaskIds :
       (t \notin DOMAIN tasks_db \/ RunEnded(t)) => StreamTaskStatusCode(t) = 404

NoStreamBlocked == \A s \in AllSubIds : ~BlockedForGood(s)

SentinelEndsStream ==
    \A s \in AllSubIds :
       (sub[s].pc = "get" /\ taken'[sub[s].task] > taken[sub[s].task] /\ sub'[s] # sub[s]
          /\ Head(Queue(sub[s].task)) = None)
       => sub'[s].pc = "closed" /\ UNCHANGED orch

(* C14: stream_task_status answers 404 for a task without a registered queue *)
(* (unknown, or its run has finished); an accepted subscription ends, without *)
(* cancelling the run, when it reads the sentinel; and no accepted            *)
(* subscription of a finished run is left waiting for ever.                   *)
C14_StreamsEnd ==
    /\ []StreamCodes
    /\ [][SentinelEndsStream]_vars
    /\ []NoStreamBlocked

DownloadAnswer(t) == Answering("download_compliance_report") /\ response.request = t

DownloadCodeFollowsFile ==
    \A t \in TaskIds :
       DownloadAnswer(t) =>
          /\ response.code = 200 =>
                t \in DOMAIN results_files /\ results_files[t].status = "completed"
          /\ t \notin DOMAIN results_files => response.code = 404
          /\ (t \in DOMAIN results_files /\ results_files[t].status # "completed")
                => response.code = 400

(* C15: download_compliance_report returns the rendered report only for a  *)
(* results file with status completed; it answers 404 when the task has no  *)
(* results file and 400 when the file's status is not completed.            *)
C15_DownloadNeedsCompletedFile == DownloadCodeFollowsFile

(* The run of t was aborted by an exception raised before the results file *)
(* was being written.                                                      *)
Aborted(o) == o.outcome = "failed" /\ o.exc # ResultsWriteError

IsFailedEvent(e, text) == IsEvent(e) /\ e.status = "failed" /\ e.message = text

FailedEvents(t) ==
    {k \in 1..Len(produced[t]) : IsEvent(produced[t][k]) /\ produced[t][k].status = "failed"}

AbortSetsFailed ==
    \A t \in DOMAIN tasks_db :
       (orch[t].pc = "on_error" /\ orch'[t].pc # "on_error" /\ orch[t].exc # ResultsWriteError)
       => /\ tasks_db'[t].status = "failed"
          /\ tasks_db'[t].message = orch[t].exc
          /\ Len(produced'[t]) = Len(produced[t]) + 1
          /\ IsFailedEvent(produced'[t][Len(produced'[t])], orch[t].exc)

AbortedRunLeavesNoFile ==
    \A t \in DOMAIN tasks_db :
       (Done(t) /\ Aborted(orch[t]))
       => /\ Cardinality(FailedEvents(t)) = 1
          /\ Len(produced[t]) >= 2
          /\ produced[t][Len(produced[t])] = None
          /\ IsFailedEvent(produced[t][Len(produced[t]) - 1], orch[t].exc)
          /\ t \notin DOMAIN results_files

(* C16: when an exception other than cancellation aborts the run (index     *)
(* building, scratch file write, missing checklist), the routine sets the  *)
(* snapshot to failed with the exception's text as message, enqueues one   *)
(* failed event with that message followed by the sentinel, and writes no  *)
(* results file for the task.                                              *)
C16_FatalExceptionFailsTask ==
    /\ []AbortedRunLeavesNoFile
    /\ [][AbortSetsFailed]_vars

C16_Witness ==
    \E t \in DOMAIN tasks_db :
       /\ Done(t)
       /\ Aborted(orch[t])
       /\ orch[t].exc = Msg("indexing failed", 0, 0)
       /\ tasks_db[t].status = "failed"
       /\ tasks_db[t].message = orch[t].exc
       /\ t \notin DOMAIN results_files

(* No stream_task_status call was ever accepted for the task. *)
Unattended(t) == \A s \in AllSubIds : sub[s].task # t

CancelTaskStep(t) ==
    /\ Answering("none")
    /\ response'.op = "cancel_task"
    /\ response'.request = t
    /\ response'.code = 200

(* Without a subscription, only a cancel_task call requests a cancellation, *)
(* and the routine leaves its normal path to the cancellation handler (or   *)
(* never starts) only on a requested cancellation.                          *)
OnlyCancelTaskCancels ==
    \A t \in DOMAIN tasks_db :
       /\ (Unattended(t) /\ ~orch[t].must_cancel /\ orch'[t].must_cancel) => CancelTaskStep(t)
       /\ (orch[t].pc # "on_cancel" /\ orch'[t].pc = "on_cancel") => orch[t].must_cancel
       /\ (orch[t].outcome # "never_started" /\ orch'[t].outcome = "never_started")
             => orch[t].must_cancel

(* The routine never waits for the queue to be drained: its steps depend on *)
(* nothing a consumer does.                                                 *)
UnattendedRunCompletes ==
    \A t \in DOMAIN tasks_db :
       (Unattended(t) /\ Done(t) /\ orch[t].outcome = "completed")
       => /\ taken[t] = 0
          /\ Len(orch[t].results) = Len(Selected(t))
          /\ t \in DOMAIN results_files
          /\ results_files[t].status = "completed"
          /\ results_files[t].results = orch[t].results
          /\ Len(produced[t]) >= 2
          /\ produced[t][Len(produced[t])] = None
          /\ Len(produced[t]) - 1 \in CompletedEvents(t)
          /\ produced[t][Len(produced[t]) - 1].result.rows = orch[t].results

EndedOrCancelling(t) ==
    \/ Done(t)
    \/ orch[t].must_cancel
    \/ orch[t].pc \in {"on_cancel", "finally"}

(* The stream of a disconnected client has ended. *)
DisconnectedStreamClosed(s) ==
    /\ sub[s].pc = "closed"
    /\ sub[s].gone
    /\ sub[s].exit \in {"disconnect", "cancelled"}

DisconnectCancelsRun ==
    \A s \in AllSubIds :
       DisconnectedStreamClosed(s) => EndedOrCancelling(sub[s].task)

CancelledRunIsFailed ==
    \A s \in AllSubIds :
       (DisconnectedStreamClosed(s) /\ Done(sub[s].task)
          /\ orch[sub[s].task].outcome = "cancelled")
       => /\ tasks_db[sub[s].task].status = "failed"
          /\ tasks_db[sub[s].task].message = CancelledMessage

(* C18: when the client of a stream disconnects while the routine is running, *)
(* the subscriber requests the cancellation of the routine and the task ends  *)
(* failed with 'Task cancelled by user.'; the run is never left running       *)
(* without a consumer.                                                        *)
C18_DisconnectCancelsRun ==
    /\ []DisconnectCancelsRun
    /\ []CancelledRunIsFailed

(* A step that changes the snapshot of a task that is not yet terminal is a *)
(* step of the task's orchestrator routine.                                 *)
SnapshotWrittenByRoutine ==
    \A t \in DOMAIN tasks_db :
       (tasks_db[t].status \notin Terminal /\ tasks_db'[t] # tasks_db[t])
       => orch'[t] # orch[t]

(* C19: between the creation of a task and its terminal status, every change *)
(* of its snapshot is made by the orchestrator routine; no handler and no    *)
(* stream consumer writes it.                                                *)
C19_OnlyRoutineWritesSnapshot == [][SnapshotWrittenByRoutine]_vars

(* start_match has answered 200 and is about to return. *)
Started == Answering("start_match") /\ response.code = 200

StartedTaskIsPending ==
    Started =>
       LET t == response.body.task_id IN
       /\ t \in DOMAIN tasks_db
       /\ tasks_db[t].status = "pending"
       /\ tasks_db[t].progress = 0
       /\ tasks_db[t].result.rows = <<>>
       /\ response.body.status = "pending"
       /\ t \in task_queues
       /\ produced[t] = <<>>
       /\ taken[t] = 0
       /\ t \in running_async_tasks
       /\ orch[t].pc = "scheduled"
       /\ worker[t] = NoWorker

StartedTaskIsFresh ==
    (Answering("none") /\ response'.op = "start_match" /\ response'.code = 200)
    => /\ response'.body.task_id \notin DOMAIN tasks_db
       /\ DOMAIN tasks_db' = DOMAIN tasks_db \cup {response'.body.task_id}
       /\ running_async_tasks' = running_async_tasks \cup {response'.body.task_id}

(* C20: a successful start_match returns a fresh task id without waiting for *)
(* any step of the routine; when it returns, the snapshot of that id is      *)
(* pending with progress 0 and no rows, its queue is registered and empty,   *)
(* and the handle of its one scheduled routine is in running_async_tasks.    *)
C20_StartMatchCreatesPendingTask ==
    /\ []StartedTaskIsPending
    /\ [][StartedTaskIsFresh]_vars

C20_Witness ==
    /\ Started
    /\ response.request.upload = "pdf"
    /\ response.body.task_id \in running_async_tasks
    /\ orch[response.body.task_id].pc = "scheduled"
    /\ tasks_db[response.body.task_id].status = "pending"

-----------------------------------------------------------------------------
(* Properties of the routine's results and of tasks side by side. *)

(* The step is taken on behalf of task a: a step of its routine or of its   *)
(* indexing thread, a step of a subscription to it, or a cancel_task call.  *)
OnBehalfOf(a) ==
    \/ orch'[a] # orch[a]
    \/ worker'[a] # worker[a]
    \/ \E s \in AllSubIds : sub[s].task = a /\ sub'[s] # sub[s]
    \/ Answering("none") /\ response'.op = "cancel_task" /\ response'.request = a

(* What a task has in the registries, on its queue and on disk. *)
Holdings(b) ==
    [snapshot |-> IF b \in DOMAIN tasks_db THEN <<tasks_db[b]>> ELSE <<>>,
     produced |-> produced[b],
     taken |-> taken[b],
     queue |-> b \in task_queues,
     handle |-> b \in running_async_tasks,
     cancelling |-> orch[b].must_cancel,
     file |-> IF b \in DOMAIN results_files THEN <<results_files[b]>> ELSE <<>>,
     scratch |-> b \in scratch]

OtherTaskUntouched ==
    \A a, b \in AllTaskIds :
       (a # b /\ OnBehalfOf(a)) => Holdings(b)' = Holdings(b)

(* C21: for two distinct tasks A and B, every step taken on behalf of A (of  *)
(* its routine, of a subscriber applying its events, a cancel_task(A) call,  *)
(* its teardown) leaves B's snapshot, queue contents, cancellation handle    *)
(* and results file unchanged.                                               *)
C21_TasksAreIsolated == [][OtherTaskUntouched]_vars

C21_Witness ==
    /\ DOMAIN tasks_db = AllTaskIds
    /\ Done("t1")
    /\ orch["t1"].outcome = "cancelled"
    /\ tasks_db["t1"].status = "failed"
    /\ "t1" \notin running_async_tasks
    /\ Done("t2")
    /\ orch["t2"].outcome = "completed"
    /\ "t2" \in DOMAIN results_files
    /\ tasks_db["t2"].status = "completed"

(* The rows a snapshot's result refers to: the full list of a completed *)
(* event, or the latest row of a per-requirement event.                 *)
SnapshotRows(snapshot) ==
    IF "rows" \in DOMAIN snapshot.result THEN snapshot.result.rows
    ELSE IF "latest_row" \in DOMAIN snapshot.result THEN <<snapshot.result.latest_row>>
    ELSE <<>>

CompletedSnapshotHasAllRows ==
    \A t \in DOMAIN tasks_db :
       tasks_db[t].status = "completed" =>
          /\ "rows" \in DOMAIN tasks_db[t].result
          /\ RowsFollow(tasks_db[t].result.rows, orch[t].all_requirements)
          /\ orch[t].all_requirements = Selected(t)

FailedSnapshotHasFinishedRows ==
    \A t \in DOMAIN tasks_db :
       tasks_db[t].status = "failed" =>
          \A k \in 1..Len(SnapshotRows(tasks_db[t])) :
             \E j \in 1..Len(orch[t].results) :
                orch[t].results[j] = SnapshotRows(tasks_db[t])[k]

(* C22: a snapshot with status completed holds exactly one row per          *)
(* requirement of the consolidated checklist; a snapshot with status failed *)
(* refers only to requirements whose evaluation had finished before the     *)
(* failure.                                                                 *)
C22_SnapshotRowsMatchRun ==
    /\ []CompletedSnapshotHasAllRows
    /\ []FailedSnapshotHasFinishedRows

C22_Witness ==
    \E t \in DOMAIN tasks_db :
       /\ tasks_db[t].status = "completed"
       /\ Len(tasks_db[t].result.rows) = 2
       /\ Len(orch[t].all_requirements) = 2
       /\ Done(t)

(* The other case: a failed snapshot that still shows a finished row. *)
FailedSnapshotShowsRow ==
    \E t \in DOMAIN tasks_db :
       /\ tasks_db[t].status = "failed"
       /\ Len(SnapshotRows(tasks_db[t])) = 1
       /\ Len(orch[t].all_requirements) = 2

(* The subscriptions whose generator is inside its reading loop on the queue. *)
Readers(t) == {s \in AllSubIds : sub[s].task = t /\ sub[s].pc \in {"check", "get", "yielded"}}

(* C23: at any time at most one subscription is reading a task's queue; a *)
(* second stream_task_status call for a task with an active subscription  *)
(* does not obtain a second reader on the same queue.                     *)
C23_SingleReaderPerQueue == \A t \in TaskIds : Cardinality(Readers(t)) <= 1

(* The tasks start_match has created. *)
Created == {t \in AllTaskIds : orch[t].pc # "absent"}

EntryKept ==
    \A t \in DOMAIN tasks_db :
       /\ t \in DOMAIN tasks_db'
       /\ "task_id" \in DOMAIN tasks_db'[t]
       /\ tasks_db'[t].task_id = t

CreatedTaskIsKnown ==
    /\ Created = DOMAIN tasks_db
    /\ \A t \in Created : "task_id" \in DOMAIN tasks_db[t] /\ tasks_db[t].task_id = t
    /\ (Answering("get_task_status") /\ response.request \in Created)
          => /\ response.code = 200
             /\ response.body = tasks_db[response.request]

(* C24: once start_match has created a task, its entry stays in tasks_db    *)
(* with the same task_id in every later state: no operation removes it or   *)
(* overwrites its task_id, and get_task_status for that id never answers    *)
(* 404.                                                                     *)
C24_TaskEntryIsKept ==
    /\ []CreatedTaskIsKnown
    /\ [][EntryKept]_vars

C24_Witness ==
    /\ Answering("get_task_status")
    /\ response.code = 200
    /\ Done(response.request)
    /\ orch[response.request].outcome = "cancelled"
    /\ response.body.status = "failed"
    /\ response.request \notin task_queues
    /\ response.request \notin running_async_tasks

(* The number of rows of the list with the given status, counted row by row. *)
RECURSIVE Occurrences(_, _)
Occurrences(rows, status) ==
    IF rows = <<>> THEN 0
    ELSE (IF Head(rows).status = status THEN 1 ELSE 0) + Occurrences(Tail(rows), status)

SummaryFits(summary, rows) ==
    /\ summary.total = Len(rows)
    /\ summary.compliant = Occurrences(rows, "Compliant")
    /\ summary.non_compliant = Occurrences(rows, "Non-Compliant")
    /\ summary.partially_compliant = Occurrences(rows, "Partially Compliant")
    /\ summary.error = Occurrences(rows, "Error")
    /\ summary.compliance_rate.num * Len(rows)
          = Occurrences(rows, "Compliant") * 100 * summary.compliance_rate.den
    /\ Len(rows) = 0 => summary.compliance_rate.num = 0

(* Every list of up to three rows over the statuses a row can have. *)
MaxRows == 3

RowLists ==
    SeqsUpTo({CheckedRow("R1", status) : status \in valid_statuses \cup {"Not Checked"}},
             MaxRows)

SummaryFitsEveryList == \A rows \in RowLists : SummaryFits(_calculate_summary(rows), rows)

Statuses(rows) == [k \in 1..Len(rows) |-> rows[k].status]

(* The example: Compliant, Non-Compliant, and an exception of the evaluator. *)
ExampleRun(t) ==
    /\ Done(t)
    /\ orch[t].outcome = "completed"
    /\ Statuses(orch[t].results) = <<"Compliant", "Non-Compliant", "Error">>
    /\ orch[t].raised = {3}

ExampleResult ==
    \A t \in DOMAIN tasks_db :
       ExampleRun(t) =>
          LET last == produced[t][Len(produced[t]) - 1] IN
          /\ orch[t].summary.total = 3
          /\ orch[t].summary.compliant = 1
          /\ orch[t].summary.non_compliant = 1
          /\ orch[t].summary.partially_compliant = 0
          /\ orch[t].summary.error = 1
          /\ orch[t].summary.compliance_rate = [num |-> 100, den |-> 3]
          /\ produced[t][Len(produced[t])] = None
          /\ last.status = "completed"
          /\ last.progress = 100
          /\ last.result.summary = orch[t].summary
          /\ t \in DOMAIN results_files
          /\ results_files[t].summary = orch[t].summary
          /\ RowsFollow(results_files[t].results, <<"R1", "R2", "R3">>)
          /\ Statuses(results_files[t].results) = Statuses(orch[t].results)

RunSummariesFit ==
    \A t \in DOMAIN tasks_db :
       \A k \in 1..Len(produced[t]) :
          (IsEvent(produced[t][k]) /\ "result" \in DOMAIN produced[t][k]
             /\ "latest_row" \in DOMAIN produced[t][k].result)
          => SummaryFits(produced[t][k].result.summary,
                         SubSeq(orch[t].results, 1, produced[t][k].result.summary.total))

PutsCompleted(t) ==
    /\ Len(produced'[t]) = Len(produced[t]) + 1
    /\ HasTerminalStatus(produced'[t][Len(produced'[t])])
    /\ produced'[t][Len(produced'[t])].status = "completed"

FileMatches(t, event) ==
    /\ t \in DOMAIN results_files
    /\ results_files[t].status = "completed"
    /\ results_files[t].results = event.result.rows
    /\ results_files[t].summary = event.result.summary

(* The file is there, complete, in the state before the event is put. *)
FileWrittenBeforeEvent ==
    \A t \in DOMAIN tasks_db :
       PutsCompleted(t) => FileMatches(t, produced'[t][Len(produced'[t])])

CompletedEventHasFile ==
    \A t \in DOMAIN tasks_db :
       \A k \in CompletedEvents(t) : FileMatches(t, produced[t][k])

(* C26: in every successful run the results file is written before the     *)
(* completed event is put on the queue; so whenever a completed event has   *)
(* been enqueued for a task, its results file exists with status completed  *)
(* and the rows and summary of the event.                                   *)
C26_FileBeforeCompletedEvent ==
    /\ []CompletedEventHasFile
    /\ [][FileWrittenBeforeEvent]_vars

C26_Witness ==
    \E t \in DOMAIN tasks_db :
       /\ CompletedEvents(t) # {}
       /\ orch[t].pc = "finally"
       /\ Len(results_files[t].results) = 2
       /\ results_files[t].summary.total = 2

(* The step finishes the processing of a requirement of the with-document *)
(* flow: the loop moves past requirement i, or leaves process_document.   *)
FinishesRequirement(t) ==
    /\ WithDocument(t)
    /\ orch[t].pc \in {"await_check", "req_except"}
    /\ orch'[t].pc \notin {"await_check", "req_except", "on_cancel"}

OneRowOneEvent ==
    \A t \in DOMAIN tasks_db :
       FinishesRequirement(t) =>
          LET i == orch[t].i
              event == produced'[t][Len(produced'[t])]
          IN  /\ Len(orch'[t].results) = i
              /\ SubSeq(orch'[t].results, 1, i - 1) = orch[t].results
              /\ Len(produced'[t]) = Len(produced[t]) + 1
              /\ IsEvent(event)
              /\ "result" \in DOMAIN event
              /\ event.result.latest_row = orch'[t].results[i]
              /\ event.result.summary.total = i

RequirementEvents(t) ==
    {k \in 1..Len(produced[t]) :
        /\ IsEvent(produced[t][k])
        /\ "result" \in DOMAIN produced[t][k]
        /\ "latest_row" \in DOMAIN produced[t][k].result
        /\ produced[t][k].result.latest_row.status # "Not Checked"}

RECURSIVE Before(_, _, _)
Before(db, guideline_ids, k) ==
    IF k = 0 THEN 0
    ELSE Before(db, guideline_ids, k - 1) + Len(db[guideline_ids[k]])

(* seq is the requirement lists of the selected checklists, one after the *)
(* other in the order of the ids, each in its own order.                  *)
IsConcatenation(seq, db, guideline_ids) ==
    /\ Len(seq) = Before(db, guideline_ids, Len(guideline_ids))
    /\ \A k \in 1..Len(guideline_ids) :
          \A j \in 1..Len(db[guideline_ids[k]]) :
             seq[Before(db, guideline_ids, k - 1) + j] = db[guideline_ids[k]][j]

ConsolidateConcatenates ==
    \A guideline_ids \in SeqsUpTo(GuidelineIds, MaxSel) :
       IsConcatenation(Consolidate(guidelines_db, guideline_ids), guidelines_db, guideline_ids)

Consolidated(t) == orch[t].pc \notin {"absent", "scheduled", "consolidate", "on_error", "done", "finally"}

RunConsolidates ==
    \A t \in DOMAIN tasks_db :
       Consolidated(t) =>
          IsConcatenation(orch[t].all_requirements, guidelines_db, orch[t].guideline_ids)

(* C29: the consolidated requirement sequence built by                      *)
(* process_compliance_check is the concatenation of the requirement lists   *)
(* of the selected checklists in the order the ids were given, each in its  *)
(* own order, keeping every occurrence of a requirement that appears more   *)
(* than once; its length is the sum of the checklist lengths.               *)
C29_ConsolidationConcatenates ==
    /\ ConsolidateConcatenates
    /\ RunConsolidates

C29_Witness ==
    \E t \in DOMAIN tasks_db :
       /\ Consolidated(t)
       /\ orch[t].guideline_ids = <<"g1", "g1">>
       /\ orch[t].all_requirements = <<"R1", "R1">>
       /\ Consolidate(guidelines_db, <<"g1", "g2">>) = <<"R1", "R2", "R1">>

(* The routine of t has observed a cancellation: it is in, or past, the *)
(* CancelledError handler.                                              *)
ObservedCancel(t) == orch[t].pc = "on_cancel" \/ orch[t].outcome = "cancelled"

(* The task has been finalized as failed by the CancelledError handler. *)
FinalizedCancelled(t) == orch[t].outcome = "cancelled"

NoCallAfterCancel ==
    \A t \in DOMAIN tasks_db :
       ObservedCancel(t) =>
          /\ orch'[t].pc \notin {"await_index", "await_retrieve", "await_check"}
          /\ worker[t].pc = "absent" => worker'[t].pc = "absent"

NoWorkAfterFinalized ==
    \A t \in DOMAIN tasks_db : FinalizedCancelled(t) => WorkerStopped(t)

NoEventAfterFinalized ==
    \A t \in DOMAIN tasks_db :
       (FinalizedCancelled(t) /\ produced'[t] # produced[t])
       => produced'[t] = Append(produced[t], None)

CancelledTeardown ==
    \A t \in DOMAIN tasks_db :
       (FinalizedCancelled(t) /\ Done(t))
       => /\ Sentinels(t) = 1
          /\ t \notin task_queues
          /\ t \notin running_async_tasks
          /\ t \notin scratch

-----------------------------------------------------------------------------
(* Properties of cancellation, indexing, startup and teardown. *)

(* The routine of t was cancelled before its first step and is over. *)
CancelledWhilePending(t) == Done(t) /\ orch[t].outcome = "never_started"

(* C31: a cancellation requested after start_match scheduled the routine and *)
(* before the routine's first step still finalizes the task: the snapshot is *)
(* failed with the cancellation message, the sentinel is on the queue, and   *)
(* the task id is in neither task_queues nor running_async_tasks.            *)
C31_CancelWhilePendingFinalizes ==
    \A t \in DOMAIN tasks_db :
       CancelledWhilePending(t) =>
          /\ tasks_db[t].status = "failed"
          /\ tasks_db[t].message = CancelledMessage
          /\ Sentinels(t) = 1
          /\ t \notin task_queues
          /\ t \notin running_async_tasks

IndexingTexts ==
    {"Indexing report...", "Indexing: Extracting page", "Chunking document...",
     "Creating vector embeddings...", "Report indexed. Starting analysis..."}

CallbackTexts ==
    {"Indexing: Extracting page", "Chunking document...", "Creating vector embeddings..."}

EventsWithText(t, texts) ==
    {k \in 1..Len(produced[t]) : IsEvent(produced[t][k]) /\ produced[t][k].message.text \in texts}

ReportIndexed(t) == EventsWithText(t, {"Report indexed. Starting analysis..."})

IndexingInBand ==
    \A t \in DOMAIN tasks_db :
       \A k \in EventsWithText(t, IndexingTexts) :
          /\ produced[t][k].progress >= 5
          /\ produced[t][k].progress <= 20

IndexingBeforeAnalysis ==
    \A t \in DOMAIN tasks_db :
       /\ \A k \in ReportIndexed(t) :
             /\ produced[t][k].progress = 20
             /\ \A j \in EventsWithText(t, CallbackTexts) : j < k
             /\ Cardinality(EventsWithText(t, {"Indexing: Extracting page"}))
                   = produced[t][k].message.i
             /\ EventsWithText(t, {"Chunking document..."}) # {}
             /\ EventsWithText(t, {"Creating vector embeddings..."}) # {}
       /\ \A j \in RequirementEvents(t) :
             \E k \in ReportIndexed(t) : k < j

ListedEvents(t) == EventsWithText(t, {"Listed requirement"})

ListedInOrder(t) ==
    \A k \in ListedEvents(t) :
       LET e == produced[t][k]
           i == e.message.i
       IN  /\ k = 2 + i
           /\ produced[t][1].progress = 2
           /\ produced[t][2].progress = 5
           /\ e.message.total = N(t)
           /\ e.result.latest_row.requirement_id = orch[t].all_requirements[i]

ListedProgressLinear(t) ==
    \A k \in ListedEvents(t) :
       LET i == produced[t][k].message.i IN
       /\ produced[t][k].progress = 5 + ((i * 90) \div N(t))
       /\ i = N(t) => produced[t][k].progress = 95

CompletedAfterListed(t) ==
    \A k \in CompletedEvents(t) :
       /\ produced[t][k].progress = 100
       /\ Cardinality(ListedEvents(t)) = N(t)
       /\ k = N(t) + 3

(* C33: in the no-document flow over N >= 1 requirements the routine emits   *)
(* exactly one event per requirement, in order, the i-th with progress       *)
(* 5 + floor(i * 90 / N) (95 for i = N), after the events with progress 2    *)
(* and 5 and before the completed event with progress 100.                   *)
C33_ListProgressIsLinear ==
    \A t \in DOMAIN tasks_db :
       (~WithDocument(t) /\ N(t) >= 1) =>
          /\ ListedInOrder(t)
          /\ ListedProgressLinear(t)
          /\ CompletedAfterListed(t)

(* The file is a checklist: it parses, is named and lists a requirement. *)
ValidChecklist(file) ==
    /\ file.parses
    /\ file.checklist_name
    /\ file.has_requirements
    /\ file.requirements # <<>>

LoadsExactlyTheValid ==
    \A dir \in Directories :
       \A stem \in DOMAIN dir :
          stem \in DOMAIN load_existing_guidelines(dir) <=> ValidChecklist(dir[stem])

NoEmptyChecklistLoaded ==
    \A g \in DOMAIN guidelines_db : guidelines_db[g] # <<>>

(* C34: load_existing_guidelines registers a file only if it parses and has *)
(* a name and a non-empty requirement list; an unparsable file, one without *)
(* a name, one without a requirement list and one with an empty list are    *)
(* skipped without aborting the scan, so every valid file of the directory  *)
(* is loaded.                                                               *)
C34_LoaderSkipsInvalidFiles ==
    /\ LoadsExactlyTheValid
    /\ NoEmptyChecklistLoaded

(* The routine of t is over and the last two items it put are a completed or *)
(* a failed event and the sentinel.                                          *)
FinishedWithTerminalEvent(t) ==
    LET n == Len(produced[t]) IN
    /\ Done(t)
    /\ n >= 2
    /\ produced[t][n] = None
    /\ IsEvent(produced[t][n - 1])
    /\ produced[t][n - 1].status \in Terminal

(* C35: when every collaborator call returns or raises and no cancellation   *)
(* is requested, every task created by start_match eventually has its       *)
(* routine finished with a completed or a failed event enqueued, followed by *)
(* the sentinel; with no consumer attached the routine still gets there.     *)
C35_RoutineTerminates ==
    \A t \in TaskIds : (t \in Created) ~> FinishedWithTerminalEvent(t)

C35_Witness ==
    \E t \in TaskIds :
       /\ FinishedWithTerminalEvent(t)
       /\ \A s \in SubIds : sub[s].pc = "absent"
       /\ taken[t] = 0

(* The results file of t is there and says completed. *)
HasCompletedFile(t) ==
    /\ t \in DOMAIN results_files
    /\ results_files[t].status = "completed"

(* A terminal event of t, or its snapshot, says 'Task cancelled by user.'. *)
ShowsCancelled(t) ==
    \/ tasks_db[t].message = CancelledMessage
    \/ \E k \in 1..Len(produced[t]) :
          /\ HasTerminalStatus(produced[t][k])
          /\ produced[t][k].message = CancelledMessage

RegisteredTasksAreKnown ==
    /\ task_queues \subseteq DOMAIN tasks_db
    /\ running_async_tasks \subseteq DOMAIN tasks_db
    /\ running_async_tasks \subseteq Created

(* A handle enters running_async_tasks in the step of start_match that makes *)
(* the task, and a task id is given a routine once.                          *)
HandleMadeOnce ==
    \A t \in AllTaskIds :
       /\ t \in running_async_tasks' \ running_async_tasks
             => /\ t \notin DOMAIN tasks_db
                /\ t \in DOMAIN tasks_db'
                /\ orch[t].pc = "absent"
                /\ orch'[t].pc = "scheduled"
                /\ Answering("start_match")'
       /\ (orch[t].pc # "scheduled" /\ orch'[t].pc = "scheduled") => orch[t].pc = "absent"

(* C37: every task id that is a key of task_queues or running_async_tasks is *)
(* a key of tasks_db, and a task id is in running_async_tasks only through   *)
(* the one start_match call that created its handle: one routine per id.     *)
C37_RegistriesWithinTasks ==
    /\ []RegisteredTasksAreKnown
    /\ [][HandleMadeOnce]_vars

C37_Witness ==
    \E t \in DOMAIN tasks_db :
       /\ t \in running_async_tasks
       /\ t \in task_queues
       /\ orch[t].pc \notin {"absent", "scheduled", "done"}

(* A subscription on t got into its loop and has ended. *)
StreamEnded(t) ==
    \E s \in AllSubIds :
       /\ sub[s].task = t
       /\ sub[s].pc = "closed"
       /\ sub[s].exit # "no_queue"

(* A removal takes out the id it is made for and nothing else, present or not. *)
RemovalsAreSafe ==
    /\ task_queues' \subseteq task_queues \cup (DOMAIN tasks_db' \ DOMAIN tasks_db)
    /\ running_async_tasks' \subseteq running_async_tasks \cup (DOMAIN tasks_db' \ DOMAIN tasks_db)
    /\ \A t \in AllTaskIds :
          (t \in task_queues \ task_queues' \/ t \in running_async_tasks \ running_async_tasks')
          => \/ orch[t].pc = "finally"
             \/ \E s \in AllSubIds : sub[s].task = t /\ sub[s].pc # sub'[s].pc /\ sub'[s].pc = "closed"
             \/ Answering("cancel_task")'

BothEndedNothingLeft ==
    \A t \in DOMAIN tasks_db :
       (Done(t) /\ StreamEnded(t)) =>
          /\ t \notin task_queues
          /\ t \notin running_async_tasks

(* C38: the removals of a task's queue and handle by the routine's finally   *)
(* block, the subscriber's disconnect branch and the subscriber's finally    *)
(* block are safe in every order: none fails on an entry already removed,    *)
(* and once the routine and the subscription have both ended the task id is  *)
(* in neither task_queues nor running_async_tasks.                           *)
C38_RemovalsInAnyOrder ==
    /\ []BothEndedNothingLeft
    /\ [][RemovalsAreSafe]_vars

(* The keyword arguments the callers of update_task pass for task t in a   *)
(* step: the event taken from the queue less its task_id, or the status and *)
(* message of the routine's handlers.                                       *)
PassedUpdates(t) ==
    (IF Queue(t) # <<>> /\ IsEvent(Head(Queue(t)))
     THEN {update_copy(Head(Queue(t)))} ELSE {})
    \cup {[status |-> "failed", message |-> CancelledMessage],
          [status |-> "failed", message |-> orch[t].exc]}

ChangedKeys(t) ==
    {k \in DOMAIN tasks_db'[t] :
        k \notin DOMAIN tasks_db[t] \/ tasks_db'[t][k] # tasks_db[t][k]}

UpdateTouchesNamedKeys ==
    \A t \in DOMAIN tasks_db :
       /\ DOMAIN tasks_db[t] \subseteq DOMAIN tasks_db'[t]
       /\ ChangedKeys(t) # {} =>
             \E updates \in PassedUpdates(t) :
                /\ ChangedKeys(t) \subseteq DOMAIN updates
                /\ \A k \in DOMAIN updates : tasks_db'[t][k] = updates[k]

SampleUpdates ==
    {[status |-> "failed", message |-> CancelledMessage],
     [status |-> "processing", progress |-> 5, message |-> Msg("Indexing report...", 0, 0)]}

UnknownTaskIsNoOp ==
    \A t \in AllTaskIds \ DOMAIN tasks_db, updates \in SampleUpdates :
       update_task(tasks_db, t, updates) = tasks_db

(* C39: update_task(task_id, **updates) changes only the keys named in       *)
(* updates (and the updated_at stamp, which the model leaves out) in the     *)
(* snapshot of task_id and leaves every other field as it was: a failed      *)
(* event without progress leaves progress and result untouched.  For a task  *)
(* id that is not in tasks_db it changes nothing and creates no entry.       *)
C39_UpdateTaskFrame ==
    /\ []UnknownTaskIsNoOp
    /\ [][UpdateTouchesNamedKeys]_vars

C39_Witness ==
    \E t \in DOMAIN tasks_db :
       /\ tasks_db[t].status = "failed"
       /\ tasks_db[t].progress > 0
       /\ AllTaskIds \ DOMAIN tasks_db # {}

=============================================================================
